---- MODULE Spec2Model ----
(***************************************************************************)
(* Wine club selection wizard (fewinery/Pilot-Theme).                      *)
(*                                                                         *)
(* The model follows the React code: the hook useWineClubWizard            *)
(* (selection-wizard.tsx), the container SelectionWizardContainer          *)
(* (selection-wizard-container.tsx) and the step components it renders     *)
(* (Step1CaseSize, Step2Frequency, Step3Quantity, Step5Review).  A handler *)
(* created in a render closes over the state of that render; the 300 ms    *)
(* auto-advance callbacks therefore carry the state of the render in which *)
(* the click happened, and they are kept in the queue `timers`.            *)
(***************************************************************************)
EXTENDS Integers, Sequences, FiniteSets, TLC

VARIABLES
  wineClub,            \* id of the club the container is rendered for (prop)
  allowStepNavigation, \* container prop
  mounted,             \* whether the container is mounted
  currentStep,         \* WineClubFormState.currentStep
  selectedCaseSize,    \* WineClubFormState.selectedCaseSize (id or Null)
  selectedSellingPlan, \* WineClubFormState.selectedSellingPlan (id or Null)
  selectedProducts,    \* WineClubFormState.selectedProducts
  selectedAddOns,      \* WineClubFormState.selectedAddOns
  errors,              \* WineClubFormState.errors, a set of <<field, message>>
  isReviewing,         \* WineClubFormState.isReviewing
  isSubmitting,        \* WineClubFormState.isSubmitting
  timers,              \* pending setTimeout callbacks, oldest first
  storage,             \* sessionStorage["wineclub-wizard-state"] or NoRecord
  now,                 \* Date.now(), in milliseconds
  response,            \* what the catalog API answers to the club listing
  listing,             \* what fetchWineClubs returned to the listing page
  rendered,            \* HTML handed to dangerouslySetInnerHTML, per sink
  request,             \* the call of the catalog client that is under way
  promo,               \* the sign-up offer and what the Review step shows of it
  formatted,           \* an identifier and what the cart formatters made of it
  navigation,          \* a call of navigateWithConfirmation and what it did
  session,             \* session storage as the recovery functions meet it
  submitted            \* whether the Add to Cart form of the Review step was sent

vars == <<wineClub, allowStepNavigation, mounted, currentStep, selectedCaseSize,
          selectedSellingPlan, selectedProducts, selectedAddOns, errors,
          isReviewing, isSubmitting, timers, storage, now, response, listing,
          rendered, request, promo, formatted, navigation, session,
          submitted>>

\* the pages around the wizard: club listing and rich text
pageVars == <<response, listing, rendered, request, promo,
              formatted, navigation, session, submitted>>

formVars == <<currentStep, selectedCaseSize, selectedSellingPlan,
              selectedProducts, selectedAddOns, errors, isReviewing,
              isSubmitting>>

-----------------------------------------------------------------------------
(* Bounds of the model *)

\* pending auto-advance callbacks a user piles up within 300 ms
MaxTimers == 2
\* number of clock advances
MaxTicks == 2

-----------------------------------------------------------------------------
(* Values *)

Null == "null"
\* CaseRestriction.max = null (no limit)
NullMax == -1
NoRecord == [wineClubId |-> Null]
\* a club without sign-up offer
NoOffer ==
  [present |-> FALSE, hasId |-> FALSE, hasTitle |-> FALSE,
   expiryKind |-> "none", expiryDate |-> 0]
\* the Review step of a club without offer, in a production build
NoPromo ==
  [offer |-> NoOffer, development |-> FALSE, showPromoModal |-> FALSE,
   button |-> FALSE, modal |-> FALSE]
\* navigateWithConfirmation was not called
NoNavigation ==
  [phase |-> "idle", enabled |-> TRUE, onSave |-> "none", confirmed |-> FALSE,
   log |-> <<>>]
\* no identifier was handed to a cart formatter
NoFormatted ==
  [fn |-> "none",
   input |-> [form |-> "empty", gidType |-> "", ref |-> ""],
   outputs |-> <<>>]
\* no call of the catalog client was made
NoRequest ==
  [fn |-> "none", phase |-> "idle", timer |-> FALSE, cause |-> "none",
   outcome |-> "none"]

\* JavaScript values that are not numbers of the model's range.  NaN is the
\* number NaN; NotANumber is a catalog value whose typeof is not "number"
\* and whose product with a number is NaN (a missing retailPrice); JsonNull
\* is the null JSON.stringify writes in place of NaN.
NaN == -1000
NotANumber == -1001
JsonNull == -1002

\* arithmetic of JavaScript numbers: NaN propagates, comparisons with NaN
\* are false
IsNaNResult(a, b) == a \in {NaN, NotANumber} \/ b \in {NaN, NotANumber}

Mul(a, b) == IF IsNaNResult(a, b) THEN NaN ELSE a * b

Add(a, b) == IF IsNaNResult(a, b) THEN NaN ELSE a + b

Sub(a, b) == IF IsNaNResult(a, b) THEN NaN ELSE a - b

Lt(a, b) == ~IsNaNResult(a, b) /\ a < b

\* one clock advance: twelve hours, in milliseconds
TickMs == 12 * 60 * 60 * 1000
\* the staleness window of loadWizardState
StaleWindowMs == 24 * 60 * 60 * 1000

MsgCaseSize == "Please select a case size"
MsgSellingPlan == "Please select a subscription frequency"
MsgNoWine == "Please select at least one wine"
MsgMinimumOrder == "Minimum order value is $v for this case size"
MsgReviewMinimumOrder == "Minimum order value is $v. Please add more wines"

-----------------------------------------------------------------------------
(* Catalog data: the clubs a wizard can be mounted for.                    *)
(*   clubA  shape of the API types: case restrictions on ProductData,      *)
(*          movOnly = true, a minimum order value for the large case       *)
(*   clubB  shape of the mock club of StandaloneSelectionWizard: the       *)
(*          restrictions also sit on productVariant; movOnly = false, an   *)
(*          invalid and a valid minimum order value                        *)
(*   clubC  a club without selling plans                                   *)
(* The offering w4 has an invalid retail price: negative in clubA, not a   *)
(* number in clubB.                                                        *)

ClubIds == {"clubA", "clubB", "clubC"}

CaseSizeIds == {"small", "large"}

SellingPlanIds == {"monthly"}

caseSizes(club) == <<"small", "large">>

CaseQuantity(cs) == IF cs = "small" THEN 1 ELSE 2

sellingPlans(club) == IF club = "clubC" THEN <<>> ELSE <<"monthly">>

\* SellingPlan.sellingPlanClubDiscount
sellingPlanClubDiscount(plan) ==
  [fixedAmount |-> 1, fixedType |-> "FIXED_AMOUNT"]

\* SellingPlan has no caseSizeId field in the API types
PlanCaseSizeId(plan) == Null

movOnly(club) == club = "clubA"

minimumOrderValue(club) ==
  IF club = "clubA" THEN << [caseSize |-> "large", value |-> 4] >>
  ELSE IF club = "clubB"
       THEN << [caseSize |-> "small", value |-> -1],
               [caseSize |-> "large", value |-> 4] >>
       ELSE <<>>

Restrictions(id) ==
  IF id = "w1" THEN << [caseSize |-> "small", min |-> 0, max |-> 1],
                       [caseSize |-> "large", min |-> 0, max |-> 1] >>
  ELSE IF id = "w2" THEN << [caseSize |-> "large", min |-> 2, max |-> NullMax] >>
  ELSE <<>>

RetailPrice(club, id) ==
  IF id = "w1" THEN 2
  ELSE IF id = "w4" THEN (IF club = "clubA" THEN -1 ELSE NotANumber)
  ELSE 1

\* ProductData.individualPrices
IndividualPrices(id) ==
  IF id = "w1" THEN << [caseSizeId |-> "large", price |-> 1] >> ELSE <<>>

\* the offerings of a club, by id
ClubProducts(club) ==
  IF club = "clubC" THEN <<"w1", "w2", "w3">> ELSE <<"w1", "w2", "w3", "w4">>

\* ProductData entries; variantCaseRestrictions is what the field
\* caseRestrictions of the productVariant object holds (<<>>: no such field)
productData(club) ==
  [i \in 1..Len(ClubProducts(club)) |->
     LET id == ClubProducts(club)[i] IN
       [id |-> id,
        retailPrice |-> RetailPrice(club, id),
        addOnOnly |-> (id = "w3"),
        caseRestrictions |-> Restrictions(id),
        individualPrices |-> IndividualPrices(id),
        variantCaseRestrictions |->
          IF club = "clubB" THEN Restrictions(id) ELSE <<>>]]

ProductIds == {"w1", "w2", "w3", "w4"}

Offering(club, id) ==
  LET pd == productData(club)
  IN pd[CHOOSE i \in 1..Len(pd) : pd[i].id = id]

-----------------------------------------------------------------------------
(* Sequence helpers (Array.prototype.find / findIndex / filter / reduce)   *)

\* the first of the indices at which the callback returns true, 0 when
\* there is none
FindIndex(matching) ==
  IF matching = {} THEN 0
  ELSE CHOOSE i \in matching : \A j \in matching : i <= j

RECURSIVE SumQuantity(_)
SumQuantity(seq) ==
  IF seq = <<>> THEN 0 ELSE Head(seq).quantity + SumQuantity(Tail(seq))

\* seq.reduce((sum, product) => sum + product.calculatedPrice, 0)
RECURSIVE SumCalculatedPrice(_)
SumCalculatedPrice(seq) ==
  IF seq = <<>> THEN 0
  ELSE LET rest == [i \in 1..(Len(seq) - 1) |-> seq[i]]
       IN Add(SumCalculatedPrice(rest), seq[Len(seq)].calculatedPrice)

\* seq.reduce((sum, product) =>
\*   sum + product.productVariant.retailPrice * product.quantity, 0)
RECURSIVE SumRetail(_)
SumRetail(seq) ==
  IF seq = <<>> THEN 0
  ELSE LET rest == [i \in 1..(Len(seq) - 1) |-> seq[i]]
       IN Add(SumRetail(rest),
              Mul(seq[Len(seq)].retailPrice, seq[Len(seq)].quantity))

RemoveAt(seq, k) ==
  [i \in 1..(Len(seq) - 1) |-> IF i < k THEN seq[i] ELSE seq[i + 1]]

-----------------------------------------------------------------------------
(* The form state as one value, and the initial state of the hook          *)

state ==
  [currentStep |-> currentStep,
   selectedCaseSize |-> selectedCaseSize,
   selectedSellingPlan |-> selectedSellingPlan,
   selectedProducts |-> selectedProducts,
   selectedAddOns |-> selectedAddOns,
   errors |-> errors,
   isReviewing |-> isReviewing,
   isSubmitting |-> isSubmitting]

initialState ==
  [currentStep |-> 1,
   selectedCaseSize |-> Null,
   selectedSellingPlan |-> Null,
   selectedProducts |-> <<>>,
   selectedAddOns |-> <<>>,
   errors |-> {},
   isReviewing |-> FALSE,
   isSubmitting |-> FALSE]

\* the state after an action: s is the record the handler leaves
SetState(s) ==
  /\ currentStep' = s.currentStep
  /\ selectedCaseSize' = s.selectedCaseSize
  /\ selectedSellingPlan' = s.selectedSellingPlan
  /\ selectedProducts' = s.selectedProducts
  /\ selectedAddOns' = s.selectedAddOns
  /\ errors' = s.errors
  /\ isReviewing' = s.isReviewing
  /\ isSubmitting' = s.isSubmitting

-----------------------------------------------------------------------------
(* useWineClubWizard: the state updates of the hook, as functions of the   *)
(* state they are applied to                                               *)

clearErrors(s) == [s EXCEPT !.errors = {}]

setError(s, field, message) ==
  [s EXCEPT !.errors = {e \in s.errors : e[1] # field} \cup {<<field, message>>}]

goToStep(s, step) ==
  IF step >= 1 /\ step <= 4
  THEN [clearErrors(s) EXCEPT !.currentStep = step, !.isReviewing = (step = 4)]
  ELSE s

goToNextStep(s) ==
  IF s.currentStep < 4
  THEN [s EXCEPT !.currentStep = s.currentStep + 1,
                 !.isReviewing = (s.currentStep + 1 = 4),
                 !.errors = {}]
  ELSE s

\* goToPreviousStep that also drops the wines selected so far
goToPreviousStep_DropsWines(s) ==
  IF s.currentStep > 1
  THEN [s EXCEPT !.currentStep = s.currentStep - 1,
                 !.isReviewing = FALSE,
                 !.errors = {},
                 !.selectedProducts = <<>>]
  ELSE s

goToPreviousStep(s) ==
  IF s.currentStep > 1
  THEN [s EXCEPT !.currentStep = s.currentStep - 1,
                 !.isReviewing = FALSE,
                 !.errors = {}]
  ELSE s

selectCaseSize(s, caseSize) ==
  [s EXCEPT !.selectedCaseSize = caseSize,
            !.selectedSellingPlan = Null,
            !.selectedProducts = <<>>,
            !.selectedAddOns = <<>>,
            !.errors = {}]

selectSellingPlan(s, sellingPlan) ==
  [s EXCEPT !.selectedSellingPlan = sellingPlan, !.errors = {}]

\* calculatePrice that charges one more than the retail price per bottle
calculatePrice_Surcharged(retailPrice, quantity) ==
  LET basePrice == IF retailPrice = NotANumber \/ retailPrice = NaN
                      \/ retailPrice < 0
                   THEN 0 ELSE retailPrice
      validQuantity == IF quantity = NotANumber \/ quantity = NaN
                          \/ quantity < 0
                       THEN 0 ELSE quantity
  IN (basePrice + 1) * validQuantity

\* calculatePrice of the hook: invalid prices and quantities fall back to 0;
\* neither individualPrices nor the selling plan's discount is read
calculatePrice(retailPrice, quantity) ==
  LET basePrice == IF retailPrice = NotANumber \/ retailPrice = NaN
                      \/ retailPrice < 0
                   THEN 0 ELSE retailPrice
      validQuantity == IF quantity = NotANumber \/ quantity = NaN
                          \/ quantity < 0
                       THEN 0 ELSE quantity
  IN basePrice * validQuantity

\* updateProductQuantity of the hook that keeps an entry whose quantity
\* becomes 0 or less
updateProductQuantity_KeepsEntry(s, club, id, quantity, isAddOn) ==
  LET products == IF isAddOn THEN s.selectedAddOns ELSE s.selectedProducts
      existingIndex ==
        FindIndex({i \in 1..Len(products) : products[i].id = id})
      updatedProducts ==
        IF existingIndex > 0
        THEN IF FALSE
             THEN RemoveAt(products, existingIndex)
             ELSE [products EXCEPT ![existingIndex] =
                     [products[existingIndex] EXCEPT
                        !.quantity = quantity,
                        !.calculatedPrice =
                          calculatePrice(products[existingIndex].retailPrice,
                                         quantity)]]
        ELSE IF quantity > 0
             THEN Append(products,
                         [id |-> id,
                          retailPrice |-> RetailPrice(club, id),
                          quantity |-> quantity,
                          isAddOn |-> isAddOn,
                          calculatedPrice |->
                            calculatePrice(RetailPrice(club, id), quantity)])
             ELSE products
  IN IF isAddOn
     THEN [s EXCEPT !.selectedAddOns = updatedProducts]
     ELSE [s EXCEPT !.selectedProducts = updatedProducts]

\* updateProductQuantity of the hook, applied to the state s
updateProductQuantity(s, club, id, quantity, isAddOn) ==
  LET products == IF isAddOn THEN s.selectedAddOns ELSE s.selectedProducts
      existingIndex ==
        FindIndex({i \in 1..Len(products) : products[i].id = id})
      updatedProducts ==
        IF existingIndex > 0
        THEN IF quantity <= 0
             THEN RemoveAt(products, existingIndex)
             ELSE [products EXCEPT ![existingIndex] =
                     [products[existingIndex] EXCEPT
                        !.quantity = quantity,
                        !.calculatedPrice =
                          calculatePrice(products[existingIndex].retailPrice,
                                         quantity)]]
        ELSE IF quantity > 0
             THEN Append(products,
                         [id |-> id,
                          retailPrice |-> RetailPrice(club, id),
                          quantity |-> quantity,
                          isAddOn |-> isAddOn,
                          calculatedPrice |->
                            calculatePrice(RetailPrice(club, id), quantity)])
             ELSE products
  IN IF isAddOn
     THEN [s EXCEPT !.selectedAddOns = updatedProducts]
     ELSE [s EXCEPT !.selectedProducts = updatedProducts]

\* calculateTotalPrice with the add-ons counted in the subscription total
calculateTotalPrice_AddOnsInSubtotal(s) ==
  LET originalSubscriptionTotal == SumRetail(s.selectedProducts)
      subscriptionTotal == Add(SumCalculatedPrice(s.selectedProducts),
                               SumCalculatedPrice(s.selectedAddOns))
      addOnTotal == SumCalculatedPrice(s.selectedAddOns)
  IN [subtotal |-> subscriptionTotal,
      subscriptionTotal |-> subscriptionTotal,
      addOnTotal |-> addOnTotal,
      grandTotal |-> Add(subscriptionTotal, addOnTotal),
      discountAmount |-> Sub(originalSubscriptionTotal, subscriptionTotal),
      originalSubtotal |-> originalSubscriptionTotal]

\* calculateTotalPrice whose grand total leaves the add-ons out
calculateTotalPrice_WithoutAddOns(s) ==
  LET originalSubscriptionTotal == SumRetail(s.selectedProducts)
      subscriptionTotal == SumCalculatedPrice(s.selectedProducts)
      addOnTotal == SumCalculatedPrice(s.selectedAddOns)
  IN [subtotal |-> subscriptionTotal,
      subscriptionTotal |-> subscriptionTotal,
      addOnTotal |-> addOnTotal,
      grandTotal |-> subscriptionTotal,
      discountAmount |-> Sub(originalSubscriptionTotal, subscriptionTotal),
      originalSubtotal |-> originalSubscriptionTotal]

calculateTotalPrice(s) ==
  LET originalSubscriptionTotal == SumRetail(s.selectedProducts)
      subscriptionTotal == SumCalculatedPrice(s.selectedProducts)
      addOnTotal == SumCalculatedPrice(s.selectedAddOns)
  IN [subtotal |-> subscriptionTotal,
      subscriptionTotal |-> subscriptionTotal,
      addOnTotal |-> addOnTotal,
      grandTotal |-> Add(subscriptionTotal, addOnTotal),
      discountAmount |-> Sub(originalSubscriptionTotal, subscriptionTotal),
      originalSubtotal |-> originalSubscriptionTotal]

\* wineClub.minimumOrderValue?.find(mov => mov.caseSize === selectedCaseSize?.id)
\* as the index of the entry, 0 when there is none
FindMinimumOrderValue(club, caseSize) ==
  LET movs == minimumOrderValue(club)
  IN FindIndex({i \in 1..Len(movs) : movs[i].caseSize = caseSize})

\* typeof movValue !== "number" || Number.isNaN(movValue) || movValue < 0
InvalidMovValue(movValue) == movValue < 0

\* validateCurrentStep with the minimum order value compared inclusively: a
\* subtotal equal to the minimum is rejected
validateCurrentStep_MovInclusive(s, club) ==
  LET k == FindMinimumOrderValue(club, s.selectedCaseSize)
      movValue == minimumOrderValue(club)[k].value
      pricing == calculateTotalPrice(s)
      belowMov == /\ k # 0
                  /\ ~InvalidMovValue(movValue)
                  /\ ~IsNaNResult(pricing.subscriptionTotal, movValue)
                  /\ pricing.subscriptionTotal <= movValue
  IN
  CASE s.currentStep = 1 ->
         IF s.selectedCaseSize = Null
         THEN [valid |-> FALSE, errors |-> {<<"caseSize", MsgCaseSize>>}]
         ELSE [valid |-> TRUE, errors |-> {}]
    [] s.currentStep = 2 ->
         IF s.selectedSellingPlan = Null
         THEN [valid |-> FALSE, errors |-> {<<"sellingPlan", MsgSellingPlan>>}]
         ELSE [valid |-> TRUE, errors |-> {}]
    [] s.currentStep = 3 ->
         IF Len(s.selectedProducts) = 0
         THEN [valid |-> FALSE, errors |-> {<<"quantity", MsgNoWine>>}]
         ELSE IF belowMov
              THEN [valid |-> FALSE, errors |-> {<<"quantity", MsgMinimumOrder>>}]
              ELSE [valid |-> TRUE, errors |-> {}]
    [] s.currentStep = 4 ->
         IF belowMov
         THEN [valid |-> FALSE, errors |-> {<<"review", MsgReviewMinimumOrder>>}]
         ELSE [valid |-> /\ s.selectedCaseSize # Null
                         /\ s.selectedSellingPlan # Null
                         /\ Len(s.selectedProducts) > 0,
               errors |-> {}]
    [] OTHER -> [valid |-> FALSE, errors |-> {}]

\* validateCurrentStep of a render whose state is s: the value it returns and
\* the error map it leaves (it always clears the map first)
validateCurrentStep(s, club) ==
  LET k == FindMinimumOrderValue(club, s.selectedCaseSize)
      movValue == minimumOrderValue(club)[k].value
      pricing == calculateTotalPrice(s)
      belowMov == /\ k # 0
                  /\ ~InvalidMovValue(movValue)
                  /\ Lt(pricing.subscriptionTotal, movValue)
  IN
  CASE s.currentStep = 1 ->
         IF s.selectedCaseSize = Null
         THEN [valid |-> FALSE, errors |-> {<<"caseSize", MsgCaseSize>>}]
         ELSE [valid |-> TRUE, errors |-> {}]
    [] s.currentStep = 2 ->
         IF s.selectedSellingPlan = Null
         THEN [valid |-> FALSE, errors |-> {<<"sellingPlan", MsgSellingPlan>>}]
         ELSE [valid |-> TRUE, errors |-> {}]
    [] s.currentStep = 3 ->
         IF Len(s.selectedProducts) = 0
         THEN [valid |-> FALSE, errors |-> {<<"quantity", MsgNoWine>>}]
         ELSE IF belowMov
              THEN [valid |-> FALSE, errors |-> {<<"quantity", MsgMinimumOrder>>}]
              ELSE [valid |-> TRUE, errors |-> {}]
    [] s.currentStep = 4 ->
         IF belowMov
         THEN [valid |-> FALSE, errors |-> {<<"review", MsgReviewMinimumOrder>>}]
         ELSE [valid |-> /\ s.selectedCaseSize # Null
                         /\ s.selectedSellingPlan # Null
                         /\ Len(s.selectedProducts) > 0,
               errors |-> {}]
    [] OTHER -> [valid |-> FALSE, errors |-> {}]

canProceedToNext(s) ==
  CASE s.currentStep = 1 -> s.selectedCaseSize # Null
    [] s.currentStep = 2 -> s.selectedSellingPlan # Null
    [] s.currentStep = 3 -> Len(s.selectedProducts) > 0
    [] s.currentStep = 4 -> /\ s.selectedCaseSize # Null
                            /\ s.selectedSellingPlan # Null
                            /\ Len(s.selectedProducts) > 0
    [] OTHER -> FALSE

\* the state a validateCurrentStep call leaves: clearErrors(), then setError
\* for the message of the failed check
Validated(s, v) ==
  IF v.errors = {}
  THEN clearErrors(s)
  ELSE LET e == CHOOSE e \in v.errors : TRUE
       IN setError(clearErrors(s), e[1], e[2])

-----------------------------------------------------------------------------
(* Step3Quantity and ProductQuantityCard                                   *)

\* product.caseRestrictions?.find(r => r.caseSize === selectedCaseSize.id) on
\* the productVariant: the index of the restriction, 0 for null / undefined
getCaseRestrictions(club, id, caseSize) ==
  LET rs == Offering(club, id).variantCaseRestrictions
  IN IF caseSize = Null THEN 0
     ELSE FindIndex({i \in 1..Len(rs) : rs[i].caseSize = caseSize})

isAtMaxQuantity(club, id, caseSize, currentQuantity) ==
  LET k == getCaseRestrictions(club, id, caseSize)
      restrictions == Offering(club, id).variantCaseRestrictions[k]
  IN IF k = 0 \/ restrictions.max = NullMax
     THEN FALSE
     ELSE currentQuantity >= restrictions.max

isAtMinQuantity(club, id, caseSize, currentQuantity) ==
  LET k == getCaseRestrictions(club, id, caseSize)
      restrictions == Offering(club, id).variantCaseRestrictions[k]
  IN IF k = 0
     THEN currentQuantity <= 0
     ELSE currentQuantity <= restrictions.min

totalSelectedItems(s) == SumQuantity(s.selectedProducts)

\* wineClub.productData || [] : every offering, add-on-only ones included
availableProducts(club) == productData(club)

\* selectedProducts.find(p => p.productVariant.id === id)?.quantity || 0
selectedQuantity(s, id) ==
  LET ps == s.selectedProducts
      k == FindIndex({i \in 1..Len(ps) : ps[i].id = id})
  IN IF k = 0 THEN 0 ELSE s.selectedProducts[k].quantity

\* the helper updateProductQuantity of the quantity step
updateProductQuantityStep3(products, club, id, quantity) ==
  LET existingIndex ==
        FindIndex({i \in 1..Len(products) : products[i].id = id})
      updatedProduct == [id |-> id,
                         retailPrice |-> RetailPrice(club, id),
                         quantity |-> quantity,
                         isAddOn |-> FALSE,
                         calculatedPrice |->
                           Mul(RetailPrice(club, id), quantity)]
  IN IF quantity <= 0
     THEN IF existingIndex = 0 THEN products ELSE RemoveAt(products, existingIndex)
     ELSE IF existingIndex > 0
          THEN [products EXCEPT ![existingIndex] = updatedProduct]
          ELSE Append(products, updatedProduct)

\* the helper updateAddOnQuantity of the add-on step
updateAddOnQuantity(addOns, club, id, quantity) ==
  LET existingIndex ==
        FindIndex({i \in 1..Len(addOns) : addOns[i].id = id})
      updatedAddOn == [id |-> id,
                       retailPrice |-> RetailPrice(club, id),
                       quantity |-> quantity,
                       isAddOn |-> TRUE,
                       calculatedPrice |->
                         Mul(RetailPrice(club, id), quantity)]
  IN IF quantity <= 0
     THEN IF existingIndex = 0 THEN addOns ELSE RemoveAt(addOns, existingIndex)
     ELSE IF existingIndex > 0
          THEN [addOns EXCEPT ![existingIndex] = updatedAddOn]
          ELSE Append(addOns, updatedAddOn)

\* wineClub.productData?.filter(product => product.addOnOnly) || []
availableAddOns(club) ==
  SelectSeq(productData(club), LAMBDA product : product.addOnOnly)

\* selectedAddOns.find(a => a.productVariant.id === id)?.quantity || 0
selectedAddOnQuantity(s, id) ==
  LET k == FindIndex({i \in 1..Len(s.selectedAddOns) :
                        s.selectedAddOns[i].id = id})
  IN IF k = 0 THEN 0 ELSE s.selectedAddOns[k].quantity

\* plans offered by the frequency step for the selected case size
availableSellingPlans(club, caseSize) ==
  SelectSeq(sellingPlans(club),
            LAMBDA plan : \/ caseSize = Null
                          \/ PlanCaseSizeId(plan) = caseSize
                          \/ PlanCaseSizeId(plan) = Null)

-----------------------------------------------------------------------------
(* Session storage                                                         *)

\* what JSON.parse reads back from JSON.stringify: NaN is written as null
JsonNumber(x) == IF x = NaN THEN JsonNull ELSE x

JsonProducts(products) ==
  [i \in 1..Len(products) |->
     [products[i] EXCEPT !.quantity = JsonNumber(@),
                         !.calculatedPrice = JsonNumber(@)]]

JsonState(s) ==
  [s EXCEPT !.selectedProducts = JsonProducts(@),
            !.selectedAddOns = JsonProducts(@)]

\* the record stored under "wineclub-wizard-state", as JSON.parse reads it
saveWizardState(s, wineClubId, time) ==
  [state |-> JsonState(s), wineClubId |-> wineClubId, timestamp |-> time]

\* the auto-save effect of the container: it writes when the serialized
\* state differs from the one written last
AutoSave(s) ==
  storage' = IF JsonState(s) # JsonState(state)
             THEN saveWizardState(s, wineClub, now)
             ELSE storage

\* a handler that leaves the form state s and schedules no callback
Handle(s) ==
  /\ SetState(s)
  /\ AutoSave(s)
  /\ UNCHANGED <<wineClub, allowStepNavigation, mounted, now, timers,
                 pageVars>>

\* what an auto-advance callback keeps of the render that scheduled it: the
\* fields of that render's state which validateCurrentStep reads at the
\* steps 1 and 2, where the callbacks are scheduled
Closure(s) ==
  [currentStep |-> s.currentStep,
   selectedCaseSize |-> s.selectedCaseSize,
   selectedSellingPlan |-> s.selectedSellingPlan]

\* a handler that leaves the form state s and schedules an auto-advance
\* callback of the current render
HandleWithTimeout(s) ==
  /\ SetState(s)
  /\ AutoSave(s)
  /\ timers' = Append(timers, Closure(state))
  /\ UNCHANGED <<wineClub, allowStepNavigation, mounted, now, pageVars>>

-----------------------------------------------------------------------------
(* Actions                                                                 *)

\* Step1CaseSize.handleCaseSizeSelect
CaseSizeClick(caseSize) ==
  /\ mounted /\ currentStep = 1
  /\ \E i \in 1..Len(caseSizes(wineClub)) : caseSizes(wineClub)[i] = caseSize
  /\ Len(timers) < MaxTimers
  /\ HandleWithTimeout([state EXCEPT !.selectedCaseSize = caseSize])

\* the "Change" button of Step1CaseSize
CaseSizeChange ==
  /\ mounted /\ currentStep = 1
  /\ Len(caseSizes(wineClub)) > 0
  /\ selectedCaseSize # Null
  /\ Handle([state EXCEPT !.selectedCaseSize = Null])

\* Step2Frequency.handleFrequencySelect
FrequencyClick(sellingPlan) ==
  /\ mounted /\ currentStep = 2
  /\ selectedCaseSize # Null
  /\ LET plans == availableSellingPlans(wineClub, selectedCaseSize)
     IN \E i \in 1..Len(plans) : plans[i] = sellingPlan
  /\ Len(timers) < MaxTimers
  /\ HandleWithTimeout([state EXCEPT !.selectedSellingPlan = sellingPlan])

\* the buttons of Step2Frequency that go to step 1: "Go Back to Case Size
\* Selection" without a case size, "Change" next to the selected case size
FrequencyBackToCaseSize ==
  /\ mounted /\ currentStep = 2
  /\ \/ selectedCaseSize = Null
     \/ Len(availableSellingPlans(wineClub, selectedCaseSize)) > 0
  /\ Handle([state EXCEPT !.currentStep = 1])

\* the "Change" button next to the selected frequency
FrequencyChange ==
  /\ mounted /\ currentStep = 2
  /\ selectedCaseSize # Null
  /\ Len(availableSellingPlans(wineClub, selectedCaseSize)) > 0
  /\ selectedSellingPlan # Null
  /\ Handle([state EXCEPT !.selectedSellingPlan = Null])

\* ProductQuantityCard.incrementQuantity
IncrementQuantity(id) ==
  /\ mounted /\ currentStep = 3
  /\ selectedCaseSize # Null
  /\ \E i \in 1..Len(availableProducts(wineClub)) :
       availableProducts(wineClub)[i].id = id
  /\ LET q == selectedQuantity(state, id)
         canAddMore == totalSelectedItems(state) < CaseQuantity(selectedCaseSize)
     IN /\ ~isAtMaxQuantity(wineClub, id, selectedCaseSize, q)
        /\ canAddMore
        /\ Handle([state EXCEPT !.selectedProducts =
                     updateProductQuantityStep3(selectedProducts, wineClub, id,
                                                q + 1)])

\* ProductQuantityCard.decrementQuantity
DecrementQuantity(id) ==
  /\ mounted /\ currentStep = 3
  /\ selectedCaseSize # Null
  /\ \E i \in 1..Len(availableProducts(wineClub)) :
       availableProducts(wineClub)[i].id = id
  /\ LET q == selectedQuantity(state, id)
     IN /\ ~isAtMinQuantity(wineClub, id, selectedCaseSize, q)
        /\ Handle([state EXCEPT !.selectedProducts =
                     updateProductQuantityStep3(selectedProducts, wineClub, id,
                                                q - 1)])

\* the buttons of Step3Quantity that change the step: "Go Back to Case Size
\* Selection" without a case size, "Change Frequency" with one
QuantityBack ==
  /\ mounted /\ currentStep = 3
  /\ Handle([state EXCEPT !.currentStep =
               IF selectedCaseSize = Null THEN 1 ELSE 2])

\* the "Next Step" / "Review Selection" button of the container
NextButton ==
  /\ mounted /\ currentStep \in {2, 3}
  /\ canProceedToNext(state)
  /\ LET v == validateCurrentStep(state, wineClub)
         s1 == Validated(state, v)
     IN Handle(IF v.valid THEN goToNextStep(s1) ELSE s1)

\* the "Previous Step" button of the container
PreviousButton ==
  /\ mounted /\ currentStep \in {2, 3}
  /\ Handle(goToPreviousStep(state))

\* handleStepClick, called by a click on a step of the progress bar
handleStepClick(s, club, allow, step) ==
  IF ~allow
  THEN s
  ELSE IF step <= s.currentStep \/ step = s.currentStep + 1
       THEN LET v == validateCurrentStep(s, club)
                s1 == Validated(s, v)
            IN IF v.valid THEN goToStep(s1, step) ELSE s1
       ELSE s

ProgressBarClick(step) ==
  /\ mounted
  /\ step \in 1..4
  /\ Handle(handleStepClick(state, wineClub, allowStepNavigation, step))

\* the "Edit" buttons of the Review step: the container's goToStep(n), then
\* updateState({currentStep: n})
ReviewEdit(step) ==
  /\ mounted /\ currentStep = 4
  /\ step \in 1..3
  /\ Handle([goToStep(state, step) EXCEPT !.currentStep = step])

\* an auto-advance callback runs: the goToNextStep prop of the render that
\* scheduled it validates that render's state, the updates apply to the
\* current state
TimerFire ==
  /\ mounted
  /\ timers # <<>>
  /\ LET closure == Head(timers)
         v == validateCurrentStep(closure, wineClub)
         s1 == Validated(state, v)
         s2 == IF v.valid THEN goToNextStep(s1) ELSE s1
     IN /\ SetState(s2)
        /\ AutoSave(s2)
  /\ timers' = Tail(timers)
  /\ UNCHANGED <<wineClub, allowStepNavigation, mounted, now, pageVars>>

\* time passes; a pending 300 ms callback runs before twelve hours are over
Tick ==
  /\ timers = <<>>
  /\ now < MaxTicks * TickMs
  /\ now' = now + TickMs
  /\ UNCHANGED <<wineClub, allowStepNavigation, mounted, formVars, timers,
                 storage, pageVars>>

\* the user leaves the page: the component state is gone, callbacks of the
\* unmounted component have no effect, the stored snapshot stays
Unmount ==
  /\ mounted
  /\ mounted' = FALSE
  /\ SetState(initialState)
  /\ timers' = <<>>
  /\ UNCHANGED <<wineClub, allowStepNavigation, storage, now, pageVars>>

\* SelectionWizardContainer is mounted for a club: useState(initialState),
\* then the auto-save effect runs (prevStateRef is "")
Mount(club, allow) ==
  /\ ~mounted
  /\ mounted' = TRUE
  /\ wineClub' = club
  /\ allowStepNavigation' = allow
  /\ SetState(initialState)
  /\ storage' = saveWizardState(initialState, club, now)
  /\ timers' = <<>>
  /\ UNCHANGED <<now, pageVars>>

\* no recovery function was called, and session storage works
NoSession ==
  [raises |-> {}, fn |-> "none", club |-> "", raised |-> FALSE,
   returned |-> "none", before |-> NoRecord, held |-> initialState]

\* no listing fetched, nothing rendered yet
PagesIdle ==
  /\ response = [status |-> "ok", data |-> <<>>]
  /\ listing = [fetched |-> FALSE, clubs |-> <<>>]
  /\ rendered = {}
  /\ request = NoRequest
  /\ promo = NoPromo
  /\ formatted = NoFormatted
  /\ navigation = NoNavigation
  /\ submitted = FALSE
  /\ session = NoSession

Init ==
  /\ PagesIdle
  /\ wineClub \in ClubIds
  /\ allowStepNavigation \in BOOLEAN
  /\ mounted = TRUE
  /\ currentStep = initialState.currentStep
  /\ selectedCaseSize = initialState.selectedCaseSize
  /\ selectedSellingPlan = initialState.selectedSellingPlan
  /\ selectedProducts = initialState.selectedProducts
  /\ selectedAddOns = initialState.selectedAddOns
  /\ errors = initialState.errors
  /\ isReviewing = initialState.isReviewing
  /\ isSubmitting = initialState.isSubmitting
  /\ timers = <<>>
  /\ now = 0
  /\ storage = saveWizardState(initialState, wineClub, 0)

\* the user interface of a mounted wizard
NextUI ==
  \/ \E caseSize \in CaseSizeIds : CaseSizeClick(caseSize)
  \/ CaseSizeChange
  \/ \E sellingPlan \in SellingPlanIds : FrequencyClick(sellingPlan)
  \/ FrequencyBackToCaseSize
  \/ FrequencyChange
  \/ \E id \in ProductIds : IncrementQuantity(id)
  \/ \E id \in ProductIds : DecrementQuantity(id)
  \/ QuantityBack
  \/ NextButton
  \/ PreviousButton
  \/ \E step \in 1..4 : ProgressBarClick(step)
  \/ \E step \in 1..3 : ReviewEdit(step)
  \/ TimerFire

Next ==
  \/ NextUI
  \/ Tick
  \/ Unmount
  \/ \E club \in ClubIds, allow \in BOOLEAN : Mount(club, allow)

Spec == Init /\ [][Next]_vars

\* one visit of the page: the wizard stays mounted
SpecUI == Init /\ [][NextUI]_vars

TypeOK ==
  /\ currentStep \in 1..4
  /\ Len(timers) <= MaxTimers

-----------------------------------------------------------------------------
(* Session recovery: loadWizardState as a function of the stored record    *)
(* and the clock: whether it returns a state (found), the state, and the   *)
(* record it leaves in the storage                                         *)

\* loadWizardState that leaves the record of another club in place
loadWizardState_KeepsOther(store, wineClubId, time) ==
  IF store = NoRecord
  THEN [found |-> FALSE, storage |-> store]
  ELSE LET isSameClub == store.wineClubId = wineClubId
           isRecent == time - store.timestamp < StaleWindowMs
       IN IF isSameClub /\ isRecent
          THEN [found |-> TRUE, result |-> store.state, storage |-> store]
          ELSE [found |-> FALSE,
                storage |-> IF isSameClub THEN NoRecord ELSE store]

loadWizardState(store, wineClubId, time) ==
  IF store = NoRecord
  THEN [found |-> FALSE, storage |-> store]
  ELSE LET isSameClub == store.wineClubId = wineClubId
           isRecent == time - store.timestamp < StaleWindowMs
       IN IF isSameClub /\ isRecent
          THEN [found |-> TRUE, result |-> store.state, storage |-> store]
          ELSE [found |-> FALSE, storage |-> NoRecord]

-----------------------------------------------------------------------------
(* The catalog's view of an offering: the case restriction of ProductData  *)
(* for a case size, and the minimum order value that applies               *)

\* index of the ProductData restriction for the case size, 0 when none
OfferingRestriction(club, id, caseSize) ==
  LET rs == Offering(club, id).caseRestrictions
  IN FindIndex({i \in 1..Len(rs) : rs[i].caseSize = caseSize})

HasMax(club, id, caseSize) ==
  /\ OfferingRestriction(club, id, caseSize) # 0
  /\ Offering(club, id).caseRestrictions[
       OfferingRestriction(club, id, caseSize)].max # NullMax

MaxOf(club, id, caseSize) ==
  Offering(club, id).caseRestrictions[
    OfferingRestriction(club, id, caseSize)].max

MinOf(club, id, caseSize) ==
  Offering(club, id).caseRestrictions[
    OfferingRestriction(club, id, caseSize)].min

\* a valid (numeric, non-negative) minimum order value exists for the case size
HasValidMov(club, caseSize) ==
  /\ FindMinimumOrderValue(club, caseSize) # 0
  /\ minimumOrderValue(club)[FindMinimumOrderValue(club, caseSize)].value >= 0

MovOf(club, caseSize) ==
  minimumOrderValue(club)[FindMinimumOrderValue(club, caseSize)].value

subscriptionSubtotal == calculateTotalPrice(state).subscriptionTotal

\* a handler of the current render calls validateCurrentStep at step 3
ValidatesAtStep3 ==
  /\ mounted /\ currentStep = 3
  /\ \/ NextButton
     \/ allowStepNavigation /\ \E step \in 1..4 : ProgressBarClick(step)

-----------------------------------------------------------------------------
(* Claims                                                                  *)

\* C1: whenever a case size is set or changed (here by the click handler of
\* step 1), the state right after has no selling plan, no main product and
\* no add-on.
C1_CascadingReset ==
  [][(\E caseSize \in CaseSizeIds : CaseSizeClick(caseSize))
       => /\ selectedSellingPlan' = Null
          /\ selectedProducts' = <<>>
          /\ selectedAddOns' = <<>>]_vars

C3_CapacityRespected ==
  (mounted /\ selectedCaseSize # Null)
    => SumQuantity(selectedProducts) <= CaseQuantity(selectedCaseSize)

\* C4: for an offering whose case restriction for the active case size has a
\* max, no step of the quantity step changes the product's quantity to a
\* value above max (an increment at max changes nothing).
C4_MaxNeverExceeded ==
  [][\A id \in ProductIds :
       (/\ mounted /\ mounted' /\ currentStep = 3 /\ currentStep' = 3
        /\ selectedCaseSize # Null
        /\ HasMax(wineClub, id, selectedCaseSize)
        /\ selectedQuantity(state', id) # selectedQuantity(state, id))
       => selectedQuantity(state', id) <= MaxOf(wineClub, id, selectedCaseSize)
    ]_vars

\* C5: every selected main product has a quantity within [min, max] of its
\* case restriction for the selected case size (no bound without a
\* restriction, no upper bound with a null max).
C5_WithinRestrictions ==
  (mounted /\ selectedCaseSize # Null) =>
    \A i \in 1..Len(selectedProducts) :
      LET p == selectedProducts[i]
      IN OfferingRestriction(wineClub, p.id, selectedCaseSize) # 0 =>
           /\ MinOf(wineClub, p.id, selectedCaseSize) <= p.quantity
           /\ HasMax(wineClub, p.id, selectedCaseSize) =>
                p.quantity <= MaxOf(wineClub, p.id, selectedCaseSize)

\* C6: the step-3 validation enforces the minimum order value exactly when
\* the club has movOnly = true and a valid entry for the selected case size:
\* otherwise the "Review Selection" button, pressed with at least one main
\* product, leads to Review; with it, a subtotal below the value does not.
C6_MovOnlyWhenFlagged ==
  [][(NextButton /\ currentStep = 3)
       => IF /\ movOnly(wineClub)
             /\ HasValidMov(wineClub, selectedCaseSize)
             /\ Lt(subscriptionSubtotal, MovOf(wineClub, selectedCaseSize))
          THEN currentStep' = 3
          ELSE currentStep' = 4]_vars

\* C7 as claimed: with a valid minimum order value v for the selected case
\* size, every step-3 validation with a subtotal below v fails with the
\* minimum-order message under "quantity" and leaves the step at 3.
C7_BelowMovAlwaysMovMessage ==
  [][(/\ ValidatesAtStep3
      /\ HasValidMov(wineClub, selectedCaseSize)
      /\ Lt(subscriptionSubtotal, MovOf(wineClub, selectedCaseSize)))
       => /\ currentStep' = 3
          /\ errors' = {<<"quantity", MsgMinimumOrder>>}]_vars

\* C7 amended: with a valid minimum order value v for the selected case size
\* and at least one main wine selected, a step-3 validation with a subtotal
\* below v fails with the minimum-order message under "quantity" and leaves
\* the step at 3; with a subtotal of at least v the "Review Selection" button
\* leads to Review with an empty error map.
C7_MovValidation ==
  [][(/\ ValidatesAtStep3
      /\ HasValidMov(wineClub, selectedCaseSize)
      /\ Len(selectedProducts) > 0)
       => IF Lt(subscriptionSubtotal, MovOf(wineClub, selectedCaseSize))
          THEN /\ currentStep' = 3
               /\ errors' = {<<"quantity", MsgMinimumOrder>>}
          ELSE NextButton => (currentStep' = 4 /\ errors' = {})]_vars

\* C7 witness: a step-3 validation has failed on the minimum order value
C7_Witness ==
  /\ mounted /\ currentStep = 3
  /\ errors = {<<"quantity", MsgMinimumOrder>>}
  /\ Len(selectedProducts) > 0
  /\ HasValidMov(wineClub, selectedCaseSize)
  /\ Lt(subscriptionSubtotal, MovOf(wineClub, selectedCaseSize))

\* C8: when the container is mounted for a club whose snapshot is less than
\* 24 hours old, the wizard starts from the snapshot and the stored snapshot
\* keeps its state.
C8_RestoreOnReturn ==
  [][(/\ ~mounted /\ mounted'
      /\ loadWizardState(storage, wineClub', now).found)
       => /\ state' = loadWizardState(storage, wineClub', now).result
          /\ storage'.state = storage.state]_vars

\* C9: the auto-advance callback of a first click (no case size selected at
\* step 1, no selling plan selected at step 2), run with no other action in
\* between, leaves the wizard at the next step with the selection kept and
\* no error for it.
C9_FirstClickAdvances ==
  [][(/\ TimerFire
      /\ Len(timers) = 1
      /\ Head(timers).currentStep = currentStep
      /\ errors = {}
      /\ \/ /\ currentStep = 1
            /\ Head(timers).selectedCaseSize = Null
            /\ selectedCaseSize # Null
         \/ /\ currentStep = 2
            /\ Head(timers).selectedCaseSize = selectedCaseSize
            /\ Head(timers).selectedSellingPlan = Null
            /\ selectedSellingPlan # Null)
       => /\ currentStep' = currentStep + 1
          /\ selectedCaseSize' = selectedCaseSize
          /\ selectedSellingPlan' = selectedSellingPlan
          /\ errors' = {}]_vars

\* C10: no offering flagged addOnOnly is among the main wines.
C10_NoAddOnOnlyMainWine ==
  mounted =>
    \A i \in 1..Len(selectedProducts) :
      ~Offering(wineClub, selectedProducts[i].id).addOnOnly

-----------------------------------------------------------------------------
(* Pricing claims                                                          *)

\* typeof price === "number", not NaN, not negative
ValidPrice(price) == price # NotANumber /\ price # NaN /\ price >= 0

\* the unit price the catalog data resolve to: the individual price of the
\* offering for the case size, else the retail price reduced by the selling
\* plan's discount, else the retail price
ResolvedUnitPrice(club, id, caseSize, plan) ==
  LET offering == Offering(club, id)
      prices == offering.individualPrices
      k == FindIndex({i \in 1..Len(prices) : prices[i].caseSizeId = caseSize})
      discount == sellingPlanClubDiscount(plan)
  IN IF k # 0 THEN prices[k].price
     ELSE IF plan # Null
          THEN IF discount.fixedType = "PERCENTAGE"
               THEN (offering.retailPrice * (100 - discount.fixedAmount)) \div 100
               ELSE offering.retailPrice - discount.fixedAmount
          ELSE offering.retailPrice

\* C11: the computed price of every selected product with a valid retail
\* price equals its quantity times the resolved unit price (individual price
\* for the selected case size, else retail price less the selected plan's
\* discount, else retail price).
C11_ResolvedUnitPrice ==
  (mounted /\ selectedCaseSize # Null) =>
    \A i \in 1..Len(selectedProducts) :
      LET p == selectedProducts[i]
      IN ValidPrice(p.retailPrice) =>
           p.calculatedPrice =
             p.quantity * ResolvedUnitPrice(wineClub, p.id, selectedCaseSize,
                                            selectedSellingPlan)

\* a number that is neither NaN nor negative
NonNegativeNumber(x) == x # NaN /\ x # NotANumber /\ x >= 0

\* C12: a product with an invalid retail price selected in the quantity step
\* has the computed price 0, and every aggregate of calculateTotalPrice is a
\* non-negative number, never NaN.
C12_InvalidPriceFallsBackToZero ==
  mounted =>
    /\ \A i \in 1..Len(selectedProducts) :
         ~ValidPrice(selectedProducts[i].retailPrice)
           => selectedProducts[i].calculatedPrice = 0
    /\ LET pricing == calculateTotalPrice(state)
       IN /\ NonNegativeNumber(pricing.subscriptionTotal)
          /\ NonNegativeNumber(pricing.addOnTotal)
          /\ NonNegativeNumber(pricing.originalSubtotal)
          /\ NonNegativeNumber(pricing.discountAmount)
          /\ NonNegativeNumber(pricing.grandTotal)

-----------------------------------------------------------------------------
(* The club listing: fetchWineClubs                                        *)

\* upstream entries of one listing response
MaxClubs == 3

\* position given to a club that has no numeric position
DefaultPosition == 999

Positions == {0, 1, 2, 1000}

\* what an entry of the response array is: a complete club, something that
\* is not an object, or an object that lacks one of the required fields
EntryShapes ==
  {"complete", "notObject", "noId", "noName", "noType", "noCaseType"}

\* the id the normalization gives to an entry without id: String(undefined)
UndefinedId == 0

\* what the upstream writes in an entry, apart from its id
EntryContents ==
  {[shape |-> sh, hasPosition |-> TRUE, position |-> pos] :
     sh \in {"complete", "noId"}, pos \in Positions}
  \cup {[shape |-> sh, hasPosition |-> FALSE, position |-> 0] :
          sh \in EntryShapes}

\* an entry of the response array: id is its index in the array (and, unless
\* the shape is noId, the id the upstream gave it)
ClubEntry(i, content) ==
  [id |-> i, shape |-> content.shape, hasPosition |-> content.hasPosition,
   position |-> content.position]

ClubEntries(i) == {ClubEntry(i, content) : content \in EntryContents}

\* an answer of the API that is an array of n entries
OkResponse(n, contents) ==
  [status |-> "ok", data |-> [i \in 1..n |-> ClubEntry(i, contents[i])]]

\* the answers of the API that are a failure and end in []
FailedResponses ==
  {[status |-> st, data |-> <<>>] :
     st \in {"error", "empty", "malformed", "notArray", "timeout"}}

\* the normalization of one object entry: id is String(clubObj.id), position
\* is the number, else 999; source remembers the entry it was made from
NormalizeClub(club) ==
  [source |-> club.id,
   id |-> IF club.shape = "noId" THEN UndefinedId ELSE club.id,
   hasName |-> club.shape # "noName",
   hasType |-> club.shape # "noType",
   hasCaseType |-> club.shape # "noCaseType",
   position |-> IF club.hasPosition THEN club.position ELSE DefaultPosition]

\* isWineClub on a normalized entry: id, shopifyId, caseSizes and
\* sellingPlans have the required type after the normalization
isWineClub(normalized) ==
  /\ normalized.hasName
  /\ normalized.hasType
  /\ normalized.hasCaseType

\* the sort key of the comparator: a.position || 999
PositionKey(club) ==
  IF club.position = 0 THEN DefaultPosition ELSE club.position

\* Array.prototype.sort with (a, b) => key(a) - key(b): a stable sort
RECURSIVE SortByPosition(_)
SortByPosition(clubs) ==
  IF clubs = <<>> THEN <<>>
  ELSE LET last == clubs[Len(clubs)]
           sorted == SortByPosition([i \in 1..(Len(clubs) - 1) |-> clubs[i]])
           before == SelectSeq(sorted,
                       LAMBDA c : PositionKey(c) <= PositionKey(last))
           after == SelectSeq(sorted,
                      LAMBDA c : PositionKey(c) > PositionKey(last))
       IN before \o <<last>> \o after

fetchWineClubs(resp) ==
  IF resp.status # "ok" THEN <<>>
  ELSE LET kept == SelectSeq(resp.data,
                     LAMBDA club : /\ club.shape # "notObject"
                                   /\ isWineClub(NormalizeClub(club)))
           normalizedClubs == [i \in 1..Len(kept) |-> NormalizeClub(kept[i])]
       IN SortByPosition(normalizedClubs)

\* the wizard is not on the page
WizardIdle ==
  /\ wineClub = "clubA"
  /\ allowStepNavigation = FALSE
  /\ mounted = FALSE
  /\ currentStep = initialState.currentStep
  /\ selectedCaseSize = initialState.selectedCaseSize
  /\ selectedSellingPlan = initialState.selectedSellingPlan
  /\ selectedProducts = initialState.selectedProducts
  /\ selectedAddOns = initialState.selectedAddOns
  /\ errors = initialState.errors
  /\ isReviewing = initialState.isReviewing
  /\ isSubmitting = initialState.isSubmitting
  /\ timers = <<>>
  /\ storage = NoRecord
  /\ now = 0

wizardVars == <<wineClub, allowStepNavigation, mounted, formVars, timers,
                storage, now>>

\* the loader of the listing section calls fetchWineClubs
FetchWineClubs ==
  /\ ~listing.fetched
  /\ listing' = [fetched |-> TRUE, clubs |-> fetchWineClubs(response)]
  /\ UNCHANGED <<wizardVars, response, rendered, request, promo, formatted,
               navigation, session, submitted>>

InitCatalog ==
  /\ WizardIdle
  /\ \/ \E n \in 0..MaxClubs : \E contents \in [1..n -> EntryContents] :
          response = OkResponse(n, contents)
     \/ response \in FailedResponses
  /\ listing = [fetched |-> FALSE, clubs |-> <<>>]
  /\ rendered = {}
  /\ request = NoRequest
  /\ promo = NoPromo
  /\ formatted = NoFormatted
  /\ navigation = NoNavigation
  /\ submitted = FALSE
  /\ session = NoSession

NextCatalog ==
  \/ FetchWineClubs

SpecCatalog == InitCatalog /\ [][NextCatalog]_vars

\* the upstream entry of a listed club
Upstream(club) == response.data[club.source]

\* C13: the listing is ascending by the clubs' positions, every club without
\* a position comes after every club with one, and clubs with equal position
\* keep their upstream order.
C13_ListingSortedByPosition ==
  listing.fetched =>
    \A i, j \in 1..Len(listing.clubs) :
      i < j =>
        LET a == Upstream(listing.clubs[i])
            b == Upstream(listing.clubs[j])
        IN /\ (a.hasPosition /\ b.hasPosition) => a.position <= b.position
           /\ ~(~a.hasPosition /\ b.hasPosition)
           /\ (a.hasPosition = b.hasPosition /\ a.position = b.position)
                => a.id < b.id

-----------------------------------------------------------------------------
(* Rich text of the catalog and the places that render it as HTML          *)

\* tokens of one rich-text field
MaxHtml == 2

\* "text"          harmless markup, <p>Great wine</p>
\* "script"        a script element, <script>alert(1)</script>
\* "iframe"        an iframe, object, embed, form or input tag
\* "onclick"       an inline event-handler attribute, onclick=
\* "javascript"    a javascript: URL
\* "nestedScript"  a script element whose tags are split by an inner script
\*                 element, <scr<script></script>ipt>...
HtmlTokens ==
  {"text", "script", "iframe", "onclick", "javascript", "nestedScript"}

HtmlInputs == UNION {[1..n -> HtmlTokens] : n \in 0..MaxHtml}

\* .replace(/<script\b[^<]*(?:(?!<\/script>)<[^<]*)*<\/script>/gi, ""): one
\* pass; removing the inner element of a split one leaves a script element
RemoveScripts(html) ==
  LET kept == SelectSeq(html, LAMBDA tok : tok # "script")
  IN [i \in 1..Len(kept) |->
        IF kept[i] = "nestedScript" THEN "script" ELSE kept[i]]

\* the replace calls that follow: tags, on*= handlers, javascript: URLs
RemoveTagsHandlersUrls(html) ==
  SelectSeq(html, LAMBDA tok : tok \notin {"iframe", "onclick", "javascript"})

sanitizeHtml(html) ==
  IF html = <<>> THEN <<>> ELSE RemoveTagsHandlersUrls(RemoveScripts(html))

\* the value a component hands to dangerouslySetInnerHTML
Render(sink, source, html) ==
  /\ rendered' = {[sink |-> sink, source |-> source, html |-> html]}
  /\ UNCHANGED <<wizardVars, response, listing, request, promo, formatted,
               navigation, session, submitted>>

\* WineClubCard: the description of a listed club
RenderClubCard(description) ==
  /\ description # <<>>
  /\ Render("WineClubCard.description", description, sanitizeHtml(description))

\* the detail route: the description of the club
RenderClubDetail(description) ==
  /\ description # <<>>
  /\ Render("detail.description", description, sanitizeHtml(description))

\* PromotionalOfferModal: the description of the sign-up offer
RenderOfferDescription(description) ==
  /\ description # <<>>
  /\ Render("PromotionalOfferModal.description", description, description)

\* PromotionalOfferModal: the terms and conditions of the offer
RenderOfferTerms(termsAndConditions) ==
  /\ termsAndConditions # <<>>
  /\ Render("PromotionalOfferModal.termsAndConditions", termsAndConditions,
            termsAndConditions)

InitRender ==
  /\ WizardIdle
  /\ PagesIdle

NextRender ==
  \/ \E html \in HtmlInputs : RenderClubCard(html)
  \/ \E html \in HtmlInputs : RenderClubDetail(html)
  \/ \E html \in HtmlInputs : RenderOfferDescription(html)
  \/ \E html \in HtmlInputs : RenderOfferTerms(html)

SpecRender == InitRender /\ [][NextRender]_vars

\* C14: every rich-text field of the catalog handed to HTML rendering is the
\* output of sanitizeHtml for that field.
C14_OnlySanitizedHtmlRendered ==
  \A r \in rendered : r.html = sanitizeHtml(r.source)

-----------------------------------------------------------------------------
(* The hook useWineClubWizard used through its API: every operation it     *)
(* returns, called by a handler of the current render                      *)

\* largest quantity passed to updateProductQuantity
MaxQuantity == 2
\* entries held in selectedProducts and selectedAddOns together
MaxSelected == 2

\* an operation of the hook that leaves the form state s
HookCall(s) ==
  /\ SetState(s)
  /\ UNCHANGED <<wineClub, allowStepNavigation, mounted, now, timers, storage,
                 pageVars>>

HookGoToStep(step) ==
  /\ mounted
  /\ HookCall(goToStep(state, step))

HookGoToNextStep ==
  /\ mounted
  /\ HookCall(goToNextStep(state))

HookGoToPreviousStep ==
  /\ mounted
  /\ HookCall(goToPreviousStep(state))

HookSelectCaseSize(caseSize) ==
  /\ mounted
  /\ \E i \in 1..Len(caseSizes(wineClub)) : caseSizes(wineClub)[i] = caseSize
  /\ HookCall(selectCaseSize(state, caseSize))

HookSelectSellingPlan(sellingPlan) ==
  /\ mounted
  /\ \E i \in 1..Len(sellingPlans(wineClub)) :
       sellingPlans(wineClub)[i] = sellingPlan
  /\ HookCall(selectSellingPlan(state, sellingPlan))

HookUpdateProductQuantity(id, quantity, isAddOn) ==
  /\ mounted
  /\ \E i \in 1..Len(ClubProducts(wineClub)) : ClubProducts(wineClub)[i] = id
  /\ LET s == updateProductQuantity(state, wineClub, id, quantity, isAddOn)
     IN /\ Len(s.selectedProducts) + Len(s.selectedAddOns) <= MaxSelected
        /\ HookCall(s)

HookValidateCurrentStep ==
  /\ mounted
  /\ HookCall(Validated(state, validateCurrentStep(state, wineClub)))

\* AddOnCard.incrementQuantity of Step4AddOns, rendered on the hook's state
AddOnIncrement(id) ==
  /\ mounted
  /\ selectedCaseSize # Null
  /\ \E i \in 1..Len(availableAddOns(wineClub)) :
       availableAddOns(wineClub)[i].id = id
  /\ selectedAddOnQuantity(state, id) < MaxQuantity
  /\ LET s == [state EXCEPT !.selectedAddOns =
                 updateAddOnQuantity(selectedAddOns, wineClub, id,
                                     selectedAddOnQuantity(state, id) + 1)]
     IN /\ Len(s.selectedProducts) + Len(s.selectedAddOns) <= MaxSelected
        /\ HookCall(s)

\* AddOnCard.decrementQuantity of Step4AddOns
AddOnDecrement(id) ==
  /\ mounted
  /\ selectedCaseSize # Null
  /\ \E i \in 1..Len(availableAddOns(wineClub)) :
       availableAddOns(wineClub)[i].id = id
  /\ selectedAddOnQuantity(state, id) > 0
  /\ HookCall([state EXCEPT !.selectedAddOns =
                 updateAddOnQuantity(selectedAddOns, wineClub, id,
                                     selectedAddOnQuantity(state, id) - 1)])

InitHook ==
  /\ PagesIdle
  /\ wineClub \in ClubIds
  /\ allowStepNavigation = FALSE
  /\ mounted = TRUE
  /\ currentStep = initialState.currentStep
  /\ selectedCaseSize = initialState.selectedCaseSize
  /\ selectedSellingPlan = initialState.selectedSellingPlan
  /\ selectedProducts = initialState.selectedProducts
  /\ selectedAddOns = initialState.selectedAddOns
  /\ errors = initialState.errors
  /\ isReviewing = initialState.isReviewing
  /\ isSubmitting = initialState.isSubmitting
  /\ timers = <<>>
  /\ now = 0
  /\ storage = NoRecord

NextHook ==
  \/ \E step \in 0..5 : HookGoToStep(step)
  \/ HookGoToNextStep
  \/ HookGoToPreviousStep
  \/ \E caseSize \in CaseSizeIds : HookSelectCaseSize(caseSize)
  \/ \E sellingPlan \in SellingPlanIds : HookSelectSellingPlan(sellingPlan)
  \/ \E id \in ProductIds, quantity \in 0..MaxQuantity, isAddOn \in BOOLEAN :
       HookUpdateProductQuantity(id, quantity, isAddOn)
  \/ HookValidateCurrentStep
  \/ \E id \in ProductIds : AddOnIncrement(id)
  \/ \E id \in ProductIds : AddOnDecrement(id)

SpecHook == InitHook /\ [][NextHook]_vars

\* C15: a selling plan is never held without a case size.
C15_PlanNeedsCaseSize ==
  mounted => (selectedSellingPlan # Null => selectedCaseSize # Null)

\* C16: after every change of currentStep of a mounted wizard the error map
\* is empty.
C16_StepChangeClearsErrors ==
  [][(mounted /\ mounted' /\ currentStep' # currentStep) => errors' = {}]_vars

\* the error key of a step
StepErrorKey(step) ==
  CASE step = 1 -> "caseSize"
    [] step = 2 -> "sellingPlan"
    [] step = 3 -> "quantity"
    [] OTHER -> "review"

\* C17: in every state, a validateCurrentStep call that returns false leaves
\* currentStep unchanged and leaves an error map holding a message under the
\* key of the current step.
C17_FailedValidationLeavesMessage ==
  mounted =>
    LET v == validateCurrentStep(state, wineClub)
        after == Validated(state, v)
    IN ~v.valid =>
         /\ after.currentStep = currentStep
         /\ \E e \in after.errors : e[1] = StepErrorKey(currentStep)

-----------------------------------------------------------------------------
(* Cart formatting: formatWineClubCart                                     *)

ClubName(club) ==
  CASE club = "clubA" -> "Club A" [] club = "clubB" -> "Club B"
    [] OTHER -> "Club C"

CaseSizeTitle(caseSize) ==
  IF caseSize = "small" THEN "1 Bottle" ELSE "2 Bottles"

SellingPlanName(plan) == "Monthly"

\* identifiers: form tells how the string is written ("gid" starts with
\* gid://, "digits" is all digits, "other" anything else, "empty" is ""),
\* gidType is the resource type of a gid, ref the thing it names
Identifier(form, gidType, ref) ==
  [form |-> form, gidType |-> gidType, ref |-> ref]

NoIdentifier == Identifier("empty", "", "")

\* ProductVariant.shopifyId
ProductShopifyId(id) ==
  CASE id = "w1" -> Identifier("gid", "ProductVariant", id)
    [] id = "w2" -> Identifier("digits", "", id)
    [] id = "w3" -> NoIdentifier
    [] OTHER -> Identifier("gid", "ProductVariant", id)

\* SellingPlan.shopifyId
SellingPlanShopifyId(plan) == Identifier("digits", "", plan)

\* a || b on identifiers: the empty string is falsy
OrElse(a, b) == IF a.form = "empty" THEN b ELSE a

\* the forms of an identifier that is a JavaScript number and not a string:
\* a number that String() writes with digits only, and any other number
NumberForms == {"numberDigits", "numberOther"}

\* the TypeError of a string method called on a number
TypeError == Identifier("TypeError", "", "")

\* String(id)
String(id) ==
  IF id.form = "numberDigits" THEN Identifier("digits", "", id.ref)
  ELSE IF id.form = "numberOther" THEN Identifier("other", "", id.ref)
  ELSE id

\* formatMerchandiseId that gives no identifier in its fallback case
formatMerchandiseId_NoFallback(shopifyId) ==
  IF shopifyId.form \in NumberForms THEN TypeError
  ELSE IF shopifyId.form = "gid" THEN shopifyId
  ELSE IF shopifyId.form = "digits"
       THEN Identifier("gid", "ProductVariant", shopifyId.ref)
       ELSE NoIdentifier

formatMerchandiseId(shopifyId) ==
  IF shopifyId.form \in NumberForms THEN TypeError
  ELSE IF shopifyId.form = "gid" THEN shopifyId
  ELSE IF shopifyId.form = "digits"
       THEN Identifier("gid", "ProductVariant", shopifyId.ref)
       ELSE shopifyId

\* formatSellingPlanId without the conversion of its argument to a string
formatSellingPlanId_NoString(sellingPlanId) ==
  LET idStr == sellingPlanId
  IN IF idStr.form \in NumberForms THEN TypeError
     ELSE IF idStr.form = "gid" THEN idStr
     ELSE IF idStr.form = "digits"
          THEN Identifier("gid", "SellingPlan", idStr.ref)
          ELSE idStr

formatSellingPlanId(sellingPlanId) ==
  LET idStr == String(sellingPlanId)
  IN IF idStr.form = "gid" THEN idStr
     ELSE IF idStr.form = "digits"
          THEN Identifier("gid", "SellingPlan", idStr.ref)
          ELSE idStr

\* formatWineClubCart with a selling plan on the add-on lines as well
formatWineClubCart_AddOnsSubscribed(club, s) ==
  IF s.selectedCaseSize = Null \/ s.selectedSellingPlan = Null
     \/ Len(s.selectedProducts) = 0
  THEN [threw |-> TRUE, lines |-> <<>>, wineClubId |-> club]
  ELSE
    LET planId == formatSellingPlanId(
                    OrElse(SellingPlanShopifyId(s.selectedSellingPlan),
                           Identifier("other", "", s.selectedSellingPlan)))
        Line(product, attributes) ==
          [merchandiseId |->
             formatMerchandiseId(OrElse(ProductShopifyId(product.id),
                                        Identifier("other", "", product.id))),
           quantity |-> product.quantity,
           hasSellingPlanId |-> TRUE,
           sellingPlanId |-> planId,
           attributes |-> attributes]
        subscriptionLines ==
          [i \in 1..Len(s.selectedProducts) |->
             Line(s.selectedProducts[i],
                  {<<"_wineClubId", club>>,
                   <<"_wineClubName", ClubName(club)>>,
                   <<"_caseSize", CaseSizeTitle(s.selectedCaseSize)>>,
                   <<"_caseSizeId", s.selectedCaseSize>>,
                   <<"_subscriptionFrequency",
                     SellingPlanName(s.selectedSellingPlan)>>,
                   <<"_deliveryType", "subscription">>})]
        addOnLines ==
          [i \in 1..Len(s.selectedAddOns) |->
             Line(s.selectedAddOns[i],
                  {<<"_wineClubId", club>>,
                   <<"_wineClubName", ClubName(club)>>,
                   <<"_addOn", "true">>,
                   <<"_deliveryType", "add-on">>})]
    IN [threw |-> FALSE, lines |-> subscriptionLines \o addOnLines,
        wineClubId |-> club]

\* formatWineClubCart without the check for an empty selectedProducts
formatWineClubCart_EmptyAllowed(club, s) ==
  IF s.selectedCaseSize = Null \/ s.selectedSellingPlan = Null
  THEN [threw |-> TRUE, lines |-> <<>>, wineClubId |-> club]
  ELSE
    LET planId == formatSellingPlanId(
                    OrElse(SellingPlanShopifyId(s.selectedSellingPlan),
                           Identifier("other", "", s.selectedSellingPlan)))
        Line(product, subscribed, attributes) ==
          [merchandiseId |->
             formatMerchandiseId(OrElse(ProductShopifyId(product.id),
                                        Identifier("other", "", product.id))),
           quantity |-> product.quantity,
           hasSellingPlanId |-> subscribed,
           sellingPlanId |-> IF subscribed THEN planId ELSE NoIdentifier,
           attributes |-> attributes]
        subscriptionLines ==
          [i \in 1..Len(s.selectedProducts) |->
             Line(s.selectedProducts[i], TRUE,
                  {<<"_wineClubId", club>>,
                   <<"_wineClubName", ClubName(club)>>,
                   <<"_caseSize", CaseSizeTitle(s.selectedCaseSize)>>,
                   <<"_caseSizeId", s.selectedCaseSize>>,
                   <<"_subscriptionFrequency",
                     SellingPlanName(s.selectedSellingPlan)>>,
                   <<"_deliveryType", "subscription">>})]
        addOnLines ==
          [i \in 1..Len(s.selectedAddOns) |->
             Line(s.selectedAddOns[i], FALSE,
                  {<<"_wineClubId", club>>,
                   <<"_wineClubName", ClubName(club)>>,
                   <<"_addOn", "true">>,
                   <<"_deliveryType", "add-on">>})]
    IN [threw |-> FALSE, lines |-> subscriptionLines \o addOnLines,
        wineClubId |-> club]

\* formatWineClubCart: whether it throws, and cartInput.lines
formatWineClubCart(club, s) ==
  IF s.selectedCaseSize = Null \/ s.selectedSellingPlan = Null
     \/ Len(s.selectedProducts) = 0
  THEN [threw |-> TRUE, lines |-> <<>>, wineClubId |-> club]
  ELSE
    LET planId == formatSellingPlanId(
                    OrElse(SellingPlanShopifyId(s.selectedSellingPlan),
                           Identifier("other", "", s.selectedSellingPlan)))
        Line(product, subscribed, attributes) ==
          [merchandiseId |->
             formatMerchandiseId(OrElse(ProductShopifyId(product.id),
                                        Identifier("other", "", product.id))),
           quantity |-> product.quantity,
           hasSellingPlanId |-> subscribed,
           sellingPlanId |-> IF subscribed THEN planId ELSE NoIdentifier,
           attributes |-> attributes]
        subscriptionLines ==
          [i \in 1..Len(s.selectedProducts) |->
             Line(s.selectedProducts[i], TRUE,
                  {<<"_wineClubId", club>>,
                   <<"_wineClubName", ClubName(club)>>,
                   <<"_caseSize", CaseSizeTitle(s.selectedCaseSize)>>,
                   <<"_caseSizeId", s.selectedCaseSize>>,
                   <<"_subscriptionFrequency",
                     SellingPlanName(s.selectedSellingPlan)>>,
                   <<"_deliveryType", "subscription">>})]
        addOnLines ==
          [i \in 1..Len(s.selectedAddOns) |->
             Line(s.selectedAddOns[i], FALSE,
                  {<<"_wineClubId", club>>,
                   <<"_wineClubName", ClubName(club)>>,
                   <<"_addOn", "true">>,
                   <<"_deliveryType", "add-on">>})]
    IN [threw |-> FALSE, lines |-> subscriptionLines \o addOnLines,
        wineClubId |-> club]

\* the cart the formatter produces for the current state
cart == formatWineClubCart(wineClub, state)

\* the keys of a line's attributes
AttributeKeys(line) == {a[1] : a \in line.attributes}

\* C19: every line of the cart, main or add-on, carries attributes giving
\* the club id, the club name, the selected case size, the selected
\* frequency and the add-on / subscription classification.
C19_EveryLineCarriesSelection ==
  (mounted /\ ~cart.threw) =>
    \A i \in 1..Len(cart.lines) :
      LET line == cart.lines[i]
      IN /\ <<"_wineClubId", wineClub>> \in line.attributes
         /\ <<"_wineClubName", ClubName(wineClub)>> \in line.attributes
         /\ \/ <<"_caseSizeId", selectedCaseSize>> \in line.attributes
            \/ <<"_caseSize", CaseSizeTitle(selectedCaseSize)>>
                 \in line.attributes
         /\ <<"_subscriptionFrequency", SellingPlanName(selectedSellingPlan)>>
              \in line.attributes
         /\ "_deliveryType" \in AttributeKeys(line)

\* C20: the cart has one line per entry of selectedProducts followed by one
\* line per entry of selectedAddOns, each naming the entry's variant with the
\* entry's quantity; every main line carries the reference of the selected
\* selling plan and no add-on line carries a sellingPlanId.
C20_OneLinePerEntry ==
  (mounted /\ ~cart.threw) =>
    LET main == Len(selectedProducts)
    IN /\ Len(cart.lines) = main + Len(selectedAddOns)
       /\ \A i \in 1..main :
            /\ cart.lines[i].merchandiseId.ref = selectedProducts[i].id
            /\ cart.lines[i].quantity = selectedProducts[i].quantity
            /\ cart.lines[i].hasSellingPlanId
            /\ cart.lines[i].sellingPlanId.ref = selectedSellingPlan
       /\ \A j \in 1..Len(selectedAddOns) :
            /\ cart.lines[main + j].merchandiseId.ref = selectedAddOns[j].id
            /\ cart.lines[main + j].quantity = selectedAddOns[j].quantity
            /\ ~cart.lines[main + j].hasSellingPlanId

\* C20 witness: a cart with a main line and an add-on line
C20_Witness ==
  /\ mounted /\ ~cart.threw
  /\ Len(selectedProducts) >= 1
  /\ Len(selectedAddOns) >= 1
  /\ Len(cart.lines) = Len(selectedProducts) + Len(selectedAddOns)

-----------------------------------------------------------------------------
(* Cart validation and the cart lines of the Review step                   *)

\* validateCartData: no line, a line without merchandise id or with a
\* quantity that is falsy or below 1, or metadata without club id make the
\* cart invalid
validateCartData(cartData) ==
  /\ Len(cartData.lines) > 0
  /\ \A i \in 1..Len(cartData.lines) :
       /\ cartData.lines[i].merchandiseId.form # "empty"
       /\ ~IsNaNResult(cartData.lines[i].quantity, 0)
       /\ cartData.lines[i].quantity >= 1
  /\ cartData.wineClubId # ""

\* the selection formatWineClubCart refuses
IncompleteSelection(s) ==
  \/ s.selectedCaseSize = Null
  \/ s.selectedSellingPlan = Null
  \/ Len(s.selectedProducts) = 0

\* cartLines of Step5Review: the lines handed to the cart form
cartLines(club, s) ==
  IF IncompleteSelection(s) THEN <<>>
  ELSE LET cartData == formatWineClubCart(club, s)
       IN IF cartData.threw THEN <<>>
          ELSE IF ~validateCartData(cartData) THEN <<>>
          ELSE cartData.lines

\* C21: formatWineClubCart raises, and returns no lines, exactly when the
\* case size is null, the selling plan is null or selectedProducts is empty;
\* the Review step then has no cart lines to submit.
C21_IncompleteSelectionRaises ==
  mounted =>
    /\ cart.threw <=> IncompleteSelection(state)
    /\ IncompleteSelection(state) =>
         /\ cart.lines = <<>>
         /\ cartLines(wineClub, state) = <<>>

\* C21 witness: the Review step shown with selections but no main wine
C21_Witness ==
  /\ mounted /\ currentStep = 4
  /\ selectedCaseSize # Null /\ selectedSellingPlan # Null
  /\ selectedProducts = <<>>
  /\ cart.threw
  /\ cartLines(wineClub, state) = <<>>

-----------------------------------------------------------------------------
(* Malformed entries of a listing response                                 *)

\* the response without its entries that are not objects or lack a field
WithoutMalformed(resp) ==
  [resp EXCEPT !.data = SelectSeq(resp.data,
                                  LAMBDA club : club.shape = "complete")]

\* C22: every entry that is not an object or lacks id, name, type or
\* caseType is dropped; the clubs returned and their order are those of the
\* response without these entries; every returned club has the id of its
\* upstream entry.
C22_MalformedEntriesDropped ==
  (listing.fetched /\ response.status = "ok") =>
    /\ \A i \in 1..Len(listing.clubs) :
         /\ Upstream(listing.clubs[i]).shape = "complete"
         /\ listing.clubs[i].id = Upstream(listing.clubs[i]).id
    /\ listing.clubs = fetchWineClubs(WithoutMalformed(response))

-----------------------------------------------------------------------------
(* The catalog client as a process: fetchWithTimeout, fetchWineClubs and   *)
(* fetchWineClubDetails, one action per await                              *)

\* the parsed body of a details response: what JSON.parse returned and, for
\* an object, which of the required fields it has
DetailPayloads ==
  {[kind |-> k, hasId |-> FALSE, hasName |-> FALSE, hasType |-> FALSE,
    hasCaseType |-> FALSE] : k \in {"null", "string", "array"}}
  \cup [kind : {"object"}, hasId : BOOLEAN, hasName : BOOLEAN,
        hasType : BOOLEAN, hasCaseType : BOOLEAN]

\* bodies of a details response
DetailBodies ==
  {[status |-> "ok", payload |-> payload] : payload \in DetailPayloads}
  \cup {[status |-> st, payload |-> CHOOSE payload \in DetailPayloads :
                                      payload.kind = "null"] :
          st \in {"empty", "malformed"}}

\* bodies of a listing response that are not an array
FailedBodies ==
  {resp \in FailedResponses : resp.status \in {"empty", "malformed",
                                                "notArray"}}

\* fetchWineClubDetails past response.text(): "value" for a club, "empty"
\* for null
fetchWineClubDetails(body) ==
  IF body.status # "ok" THEN "empty"
  ELSE IF body.payload.kind \in {"null", "string"} THEN "empty"
  ELSE IF ~(body.payload.hasId /\ body.payload.hasName) THEN "empty"
  ELSE IF ~isWineClub([hasName |-> body.payload.hasName,
                       hasType |-> body.payload.hasType,
                       hasCaseType |-> body.payload.hasCaseType])
       THEN "empty"
       ELSE "value"

\* the call has returned
Returned(req, cause, outcome) ==
  [req EXCEPT !.phase = "returned", !.timer = FALSE, !.cause = cause,
              !.outcome = outcome]

\* the try block threw and nothing caught it
Rejected_Uncaught(req, cause) ==
  [req EXCEPT !.phase = "raised", !.timer = FALSE, !.cause = cause,
              !.outcome = "raised"]

\* the try block threw: the catch clause logs and returns [] or null
Rejected(req, cause) == Returned(req, cause, "empty")

\* a call may start when none is under way; it starts with no answer of the
\* upstream and no listing
Callable == request.phase \in {"idle", "returned"}

\* fetchWineClubs up to its first await
CallFetchWineClubs(hasShopDomain) ==
  /\ Callable
  /\ IF ~hasShopDomain
     THEN /\ request' = Returned([NoRequest EXCEPT !.fn = "listing"],
                                 "noShopDomain", "empty")
          /\ listing' = [fetched |-> TRUE, clubs |-> <<>>]
     ELSE /\ request' = [NoRequest EXCEPT !.fn = "listing",
                                          !.phase = "pending",
                                          !.timer = TRUE]
          /\ listing' = [fetched |-> FALSE, clubs |-> <<>>]
  /\ response' = [status |-> "ok", data |-> <<>>]
  /\ UNCHANGED <<wizardVars, rendered, promo, formatted,
               navigation, session, submitted>>

\* fetchWineClubDetails up to its first await
CallFetchWineClubDetails(hasShopDomain, hasClubId) ==
  /\ Callable
  /\ request' =
       IF ~hasShopDomain
       THEN Returned([NoRequest EXCEPT !.fn = "details"],
                     "noShopDomain", "empty")
       ELSE IF ~hasClubId
       THEN Returned([NoRequest EXCEPT !.fn = "details"], "noClubId", "empty")
       ELSE [NoRequest EXCEPT !.fn = "details", !.phase = "pending",
                              !.timer = TRUE]
  /\ response' = [status |-> "ok", data |-> <<>>]
  /\ listing' = [fetched |-> FALSE, clubs |-> <<>>]
  /\ UNCHANGED <<wizardVars, rendered, promo, formatted,
               navigation, session, submitted>>

\* the listing the loader gets when the call ends with the empty result
ListingAfter(req) ==
  IF req.fn = "listing" /\ req.phase = "returned"
  THEN [fetched |-> TRUE, clubs |-> <<>>]
  ELSE listing

\* fetch rejects: no connection
NetworkFailure ==
  /\ request.phase = "pending"
  /\ request' = Rejected(request, "network")
  /\ listing' = ListingAfter(request')
  /\ UNCHANGED <<wizardVars, response, rendered, promo, formatted,
               navigation, session, submitted>>

\* the timer of fetchWithTimeout fires: abort, AbortError, timeout error
Timeout ==
  /\ request.phase = "pending"
  /\ request.timer
  /\ request' = Rejected(request, "timeout")
  /\ listing' = ListingAfter(request')
  /\ UNCHANGED <<wizardVars, response, rendered, promo, formatted,
               navigation, session, submitted>>

\* fetch resolves with the response headers: the timer is cleared
ResponseHeaders(ok) ==
  /\ request.phase = "pending"
  /\ request' = IF ok
                THEN [request EXCEPT !.phase = "reading", !.timer = FALSE]
                ELSE Returned(request, "status", "empty")
  /\ listing' = ListingAfter(request')
  /\ UNCHANGED <<wizardVars, response, rendered, promo, formatted,
               navigation, session, submitted>>

\* response.text() rejects
BodyFailure ==
  /\ request.phase = "reading"
  /\ request' = Rejected(request, "body")
  /\ listing' = ListingAfter(request')
  /\ UNCHANGED <<wizardVars, response, rendered, promo, formatted,
               navigation, session, submitted>>

\* fetchWineClubs past response.text(), which gave the body resp
ListingReturns(resp) ==
  /\ response' = resp
  /\ listing' = [fetched |-> TRUE, clubs |-> fetchWineClubs(resp)]
  /\ request' = Returned(request, resp.status,
                         IF fetchWineClubs(resp) = <<>> THEN "empty"
                         ELSE "value")
  /\ UNCHANGED <<wizardVars, rendered, promo, formatted,
               navigation, session, submitted>>

\* response.text() of the listing resolves with a JSON array
ListingArrayBody ==
  /\ request.phase = "reading"
  /\ request.fn = "listing"
  /\ \E n \in 0..MaxClubs : \E contents \in [1..n -> EntryContents] :
       ListingReturns(OkResponse(n, contents))

\* response.text() of the listing resolves with something else
ListingOtherBody(resp) ==
  /\ request.phase = "reading"
  /\ request.fn = "listing"
  /\ ListingReturns(resp)

\* response.text() of the details resolves
DetailsBody(body) ==
  /\ request.phase = "reading"
  /\ request.fn = "details"
  /\ request' = Returned(request,
                         IF body.status = "ok" THEN body.payload.kind
                         ELSE body.status,
                         fetchWineClubDetails(body))
  /\ UNCHANGED <<wizardVars, response, listing, rendered, promo, formatted,
               navigation, session, submitted>>

InitClient ==
  /\ WizardIdle
  /\ PagesIdle

NextClient ==
  \/ \E hasShopDomain \in BOOLEAN : CallFetchWineClubs(hasShopDomain)
  \/ \E hasShopDomain \in BOOLEAN, hasClubId \in BOOLEAN :
       CallFetchWineClubDetails(hasShopDomain, hasClubId)
  \/ NetworkFailure
  \/ Timeout
  \/ \E ok \in BOOLEAN : ResponseHeaders(ok)
  \/ BodyFailure
  \/ ListingArrayBody
  \/ \E resp \in FailedBodies : ListingOtherBody(resp)
  \/ \E body \in DetailBodies : DetailsBody(body)

SpecClient == InitClient /\ [][NextClient]_vars

\* the runtime fires an armed timer; the upstream owes nothing
SpecClientFair == SpecClient /\ WF_vars(Timeout)

\* the upstream outcomes that must end in the empty result
FailureCauses ==
  {"network", "timeout", "status", "empty", "malformed", "notArray",
   "null", "string", "noShopDomain", "noClubId", "body"}

\* C23: fetchWineClubs returns [] and fetchWineClubDetails returns null, and
\* neither raises, on network failure, timeout, non-2xx status, empty body,
\* malformed JSON, a non-array listing payload, a non-object detail payload
\* and a missing shop domain or club id.
C23_FailuresGiveEmptyResult ==
  /\ request.phase # "raised"
  /\ (request.phase = "returned" /\ request.cause \in FailureCauses) =>
       /\ request.outcome = "empty"
       /\ request.fn = "listing" => (listing.fetched /\ listing.clubs = <<>>)

\* C23 witness: a details call that got a JSON string returned null
C23_Witness ==
  /\ request.fn = "details"
  /\ request.phase = "returned"
  /\ request.cause = "string"
  /\ request.outcome = "empty"

\* C24: every call of fetchWineClubs and fetchWineClubDetails eventually
\* returns, also when the upstream never answers or stalls after the
\* response headers.
C24_EveryCallReturns ==
  (request.phase \in {"pending", "reading"}) ~> (request.phase = "returned")

-----------------------------------------------------------------------------
(* The sign-up offer on the Review step                                    *)

\* expiry dates an offer may carry, as times of the clock
ExpiryDates == {i * TickMs : i \in 0..MaxTicks}

\* wineClub.signUpProductOffer: absent, or an offer with or without id and
\* title whose expiryDate is absent, unparsable or a date
Offers ==
  {NoOffer}
  \cup {[present |-> TRUE, hasId |-> i, hasTitle |-> ti, expiryKind |-> k,
         expiryDate |-> 0] :
          i \in BOOLEAN, ti \in BOOLEAN, k \in {"none", "invalid"}}
  \cup {[present |-> TRUE, hasId |-> i, hasTitle |-> ti,
         expiryKind |-> "date", expiryDate |-> e] :
          i \in BOOLEAN, ti \in BOOLEAN, e \in ExpiryDates}

\* mockPromotionalOffer: expires seven days after the module was loaded
mockPromotionalOffer ==
  [present |-> TRUE, hasId |-> TRUE, hasTitle |-> TRUE,
   expiryKind |-> "date", expiryDate |-> 7 * 24 * 60 * 60 * 1000]

\* showSignUpOffer of Step5Review; a comparison with an invalid Date is false
showSignUpOffer(offer, time, development) ==
  \/ /\ offer.present
     /\ \/ offer.expiryKind = "none"
        \/ offer.expiryKind = "date" /\ offer.expiryDate > time
  \/ development

\* PromotionalOfferModal: whether it renders anything
PromotionalOfferModal(offer, isVisible, time) ==
  LET isExpired ==
        IF offer.expiryKind = "none" THEN FALSE
        ELSE IF offer.expiryKind = "invalid" THEN TRUE
        ELSE offer.expiryDate < time
  IN /\ isVisible
     /\ offer.present /\ offer.hasId /\ offer.hasTitle
     /\ ~isExpired

\* what Step5Review renders of the offer at the given time
RenderOffer(offer, development, showPromoModal, time) ==
  [offer |-> offer,
   development |-> development,
   showPromoModal |-> showPromoModal,
   button |-> showSignUpOffer(offer, time, development),
   modal |-> /\ showSignUpOffer(offer, time, development)
             /\ PromotionalOfferModal(
                  IF offer.present THEN offer ELSE mockPromotionalOffer,
                  showPromoModal, time)]

\* the "View Special Offer" button: setShowPromoModal(true)
ViewSpecialOffer ==
  /\ promo.button
  /\ ~promo.showPromoModal
  /\ promo' = RenderOffer(promo.offer, promo.development, TRUE, now)
  /\ UNCHANGED <<wizardVars, response, listing, rendered, request, formatted,
               navigation, session, submitted>>

\* onClose of the modal: setShowPromoModal(false)
ClosePromoModal ==
  /\ promo.modal
  /\ promo' = RenderOffer(promo.offer, promo.development, FALSE, now)
  /\ UNCHANGED <<wizardVars, response, listing, rendered, request, formatted,
               navigation, session, submitted>>

\* time passes and the Review step renders again
ReviewLater ==
  /\ now < MaxTicks * TickMs
  /\ now' = now + TickMs
  /\ promo' = RenderOffer(promo.offer, promo.development,
                          promo.showPromoModal, now')
  /\ UNCHANGED <<wineClub, allowStepNavigation, mounted, formVars, timers,
                 storage, response, listing, rendered, request, formatted,
                 navigation, session, submitted>>

InitOffer ==
  /\ WizardIdle
  /\ response = [status |-> "ok", data |-> <<>>]
  /\ listing = [fetched |-> FALSE, clubs |-> <<>>]
  /\ rendered = {}
  /\ request = NoRequest
  /\ formatted = NoFormatted
  /\ navigation = NoNavigation
  /\ submitted = FALSE
  /\ session = NoSession
  /\ \E offer \in Offers, development \in BOOLEAN :
       promo = RenderOffer(offer, development, FALSE, 0)

NextOffer ==
  \/ ViewSpecialOffer
  \/ ClosePromoModal
  \/ ReviewLater

SpecOffer == InitOffer /\ [][NextOffer]_vars

\* an offer that must not be shown
BrokenOffer(offer, time) ==
  /\ offer.present
  /\ \/ ~offer.hasId
     \/ ~offer.hasTitle
     \/ offer.expiryKind = "invalid"
     \/ offer.expiryKind = "date" /\ offer.expiryDate <= time

\* C25: neither the "View Special Offer" button nor the modal is rendered
\* for a sign-up offer without id or title, with an unparsable expiry date or
\* with an expiry that is not in the future; an offer with id and title and
\* with no expiry or a future one is shown.
C25_OnlyValidOfferShown ==
  /\ BrokenOffer(promo.offer, now) => (~promo.button /\ ~promo.modal)
  /\ (promo.offer.present /\ ~BrokenOffer(promo.offer, now)) =>
       /\ promo.button
       /\ promo.showPromoModal => promo.modal

-----------------------------------------------------------------------------
(* Add-ons and the checks of the subscription                              *)

\* add-on selections to compare a state with: none, or one add-on
AddOnSelections(club) ==
  {<<>>}
  \cup {updateAddOnQuantity(<<>>, club, ClubProducts(club)[i], quantity) :
          i \in 1..Len(ClubProducts(club)), quantity \in 1..MaxQuantity}

\* what the subscription checks see of a state: the subscription total, the
\* main-wine total against the case capacity, and the validation of the
\* minimum order value at steps 3 and 4
SubscriptionChecks(s, club) ==
  [subscriptionTotal |-> calculateTotalPrice(s).subscriptionTotal,
   totalSelectedItems |-> totalSelectedItems(s),
   canAddMore |-> IF s.selectedCaseSize = Null THEN FALSE
                  ELSE totalSelectedItems(s) < CaseQuantity(s.selectedCaseSize),
   step3 |-> validateCurrentStep([s EXCEPT !.currentStep = 3], club),
   step4 |-> validateCurrentStep([s EXCEPT !.currentStep = 4], club)]

\* C26: two wizard states that differ only in selectedAddOns have the same
\* subscriptionTotal, the same main-wine total against the case capacity and
\* the same result of the minimum-order-value validation at steps 3 and 4.
C26_AddOnsDoNotInfluenceChecks ==
  mounted =>
    \A addOns \in AddOnSelections(wineClub) :
      SubscriptionChecks([state EXCEPT !.selectedAddOns = addOns], wineClub)
        = SubscriptionChecks(state, wineClub)

\* C26 witness: main wines and an add-on selected for a case size that has
\* a valid minimum order value
C26_Witness ==
  /\ mounted
  /\ selectedCaseSize # Null
  /\ HasValidMov(wineClub, selectedCaseSize)
  /\ Len(selectedProducts) > 0
  /\ Len(selectedAddOns) > 0
  /\ calculateTotalPrice(state).addOnTotal > 0
  /\ SubscriptionChecks([state EXCEPT !.selectedAddOns = <<>>], wineClub)
       = SubscriptionChecks(state, wineClub)

-----------------------------------------------------------------------------
(* The entries of selectedProducts and selectedAddOns                      *)

\* quantities a caller may pass to a quantity update
QuantityInputs == (0 - 1)..MaxQuantity

\* at most one entry per variant id, and every quantity at least 1
OneEntryPerVariant(entries) ==
  /\ \A i, j \in 1..Len(entries) : i # j => entries[i].id # entries[j].id
  /\ \A i \in 1..Len(entries) :
       ~IsNaNResult(entries[i].quantity, 0) /\ entries[i].quantity >= 1

\* the entries without the one of the variant
WithoutVariant(entries, id) == SelectSeq(entries, LAMBDA p : p.id # id)

\* the entries of the variants other than id
SameOthers(before, after, id) ==
  WithoutVariant(after, id) = WithoutVariant(before, id)

\* C27: selectedProducts and selectedAddOns each hold at most one entry per
\* variant id, every entry with quantity >= 1, before and after every
\* quantity update (of the hook, of the quantity step and of the add-on
\* step); an update with quantity <= 0 removes the entry of the variant, or
\* changes nothing if there is none, and every update leaves the entries of
\* the other variants as they were.
C27_OneEntryPerVariant ==
  mounted =>
    /\ OneEntryPerVariant(selectedProducts)
    /\ OneEntryPerVariant(selectedAddOns)
    /\ \A k \in 1..Len(ClubProducts(wineClub)), quantity \in QuantityInputs :
         LET id == ClubProducts(wineClub)[k]
             main == updateProductQuantity(state, wineClub, id, quantity,
                                           FALSE)
             extra == updateProductQuantity(state, wineClub, id, quantity,
                                            TRUE)
             step3 == updateProductQuantityStep3(selectedProducts, wineClub,
                                                 id, quantity)
             step4 == updateAddOnQuantity(selectedAddOns, wineClub, id,
                                          quantity)
         IN /\ OneEntryPerVariant(main.selectedProducts)
            /\ OneEntryPerVariant(extra.selectedAddOns)
            /\ OneEntryPerVariant(step3)
            /\ OneEntryPerVariant(step4)
            /\ main.selectedAddOns = selectedAddOns
            /\ extra.selectedProducts = selectedProducts
            /\ SameOthers(selectedProducts, main.selectedProducts, id)
            /\ SameOthers(selectedAddOns, extra.selectedAddOns, id)
            /\ SameOthers(selectedProducts, step3, id)
            /\ SameOthers(selectedAddOns, step4, id)
            /\ quantity <= 0 =>
                 /\ main.selectedProducts
                      = WithoutVariant(selectedProducts, id)
                 /\ extra.selectedAddOns = WithoutVariant(selectedAddOns, id)
                 /\ step3 = WithoutVariant(selectedProducts, id)
                 /\ step4 = WithoutVariant(selectedAddOns, id)

\* C27 witness: a main wine and an add-on are selected, and an update of the
\* main wine to quantity 0 leaves the selection without it
C27_Witness ==
  /\ mounted
  /\ Len(selectedProducts) >= 1
  /\ Len(selectedAddOns) >= 1
  /\ selectedProducts[1].quantity > 1
  /\ updateProductQuantity(state, wineClub, selectedProducts[1].id, 0,
                           FALSE).selectedProducts = Tail(selectedProducts)

-----------------------------------------------------------------------------
(* What the navigation leaves alone                                        *)

\* the state s with the step, the review flag and the errors of the state r
WithNavigationOf(s, r) ==
  [s EXCEPT !.currentStep = r.currentStep,
            !.isReviewing = r.isReviewing,
            !.errors = r.errors]

\* the selections of a state
Selections(s) ==
  <<s.selectedCaseSize, s.selectedSellingPlan, s.selectedProducts,
    s.selectedAddOns>>

\* C28: goToPreviousStep and goToNextStep change only currentStep,
\* isReviewing and errors; the selections are unchanged, so going back from
\* step 3 to step 1 and forward again to step 3 shows the same selections.
C28_NavigationKeepsSelections ==
  mounted =>
    /\ WithNavigationOf(goToNextStep(state), state) = state
    /\ WithNavigationOf(goToPreviousStep(state), state) = state
    /\ currentStep = 3 =>
         LET back == goToPreviousStep(goToPreviousStep(state))
             again == goToNextStep(goToNextStep(back))
         IN /\ back.currentStep = 1
            /\ Selections(back) = Selections(state)
            /\ again.currentStep = 3
            /\ Selections(again) = Selections(state)

\* C28 witness: step 3 with a case size, a plan, a wine and an add-on, and
\* the way back to step 1 taken
C28_Witness ==
  /\ mounted /\ currentStep = 3
  /\ selectedCaseSize # Null /\ selectedSellingPlan # Null
  /\ Len(selectedProducts) > 0 /\ Len(selectedAddOns) > 0
  /\ goToPreviousStep(goToPreviousStep(state)).currentStep = 1
  /\ Selections(goToPreviousStep(goToPreviousStep(state))) = Selections(state)

-----------------------------------------------------------------------------
(* The discount of the totals                                              *)

\* every entry was made from a non-negative numeric retail price and
\* quantity
ValidEntries(entries) ==
  \A i \in 1..Len(entries) :
    /\ ValidPrice(entries[i].retailPrice)
    /\ NonNegativeNumber(entries[i].quantity)

\* C29: calculateTotalPrice returns discountAmount = originalSubtotal -
\* subscriptionTotal, and discountAmount >= 0 in every state whose selections
\* the quantity operations made from products with non-negative numeric
\* retail prices and quantities.
C29_DiscountNotNegative ==
  (mounted /\ ValidEntries(selectedProducts) /\ ValidEntries(selectedAddOns)) =>
    LET pricing == calculateTotalPrice(state)
    IN /\ NonNegativeNumber(pricing.originalSubtotal)
       /\ NonNegativeNumber(pricing.subscriptionTotal)
       /\ pricing.discountAmount
            = pricing.originalSubtotal - pricing.subscriptionTotal
       /\ pricing.discountAmount >= 0

\* C29 witness: wines of valid price selected, with a total above zero
C29_Witness ==
  /\ mounted
  /\ Len(selectedProducts) > 0
  /\ ValidEntries(selectedProducts) /\ ValidEntries(selectedAddOns)
  /\ calculateTotalPrice(state).originalSubtotal > 0
  /\ calculateTotalPrice(state).discountAmount >= 0

-----------------------------------------------------------------------------
(* The identifier formatters applied to identifiers of every form          *)

\* how often a formatter is applied to its own result
MaxApplications == 2

GidTypes == {"ProductVariant", "SellingPlan", "Product"}

IdentifierRefs == ProductIds \cup SellingPlanIds

\* strings: gids of any resource type, all-digit strings, other strings and
\* the empty string
StringIdentifiers ==
  {Identifier("gid", gidType, ref) : gidType \in GidTypes,
                                     ref \in IdentifierRefs}
  \cup {Identifier(form, "", ref) : form \in {"digits", "other"},
                                    ref \in IdentifierRefs}
  \cup {NoIdentifier}

\* numbers
NumberIdentifiers ==
  {Identifier(form, "", ref) : form \in NumberForms, ref \in IdentifierRefs}

\* the arguments the declared type of a formatter admits
Arguments(fn) ==
  IF fn = "formatMerchandiseId" THEN StringIdentifiers
  ELSE StringIdentifiers \cup NumberIdentifiers

Format(fn, id) ==
  IF fn = "formatMerchandiseId" THEN formatMerchandiseId(id)
  ELSE formatSellingPlanId(id)

\* the formatter is applied to the identifier, or to its last result
ApplyFormat ==
  /\ Len(formatted.outputs) < MaxApplications
  /\ formatted' =
       [formatted EXCEPT !.outputs =
          Append(@, Format(formatted.fn,
                           IF formatted.outputs = <<>> THEN formatted.input
                           ELSE formatted.outputs[Len(formatted.outputs)]))]
  /\ UNCHANGED <<wizardVars, response, listing, rendered, request, promo,
               navigation, session, submitted>>

InitFormat ==
  /\ WizardIdle
  /\ response = [status |-> "ok", data |-> <<>>]
  /\ listing = [fetched |-> FALSE, clubs |-> <<>>]
  /\ rendered = {}
  /\ request = NoRequest
  /\ promo = NoPromo
  /\ navigation = NoNavigation
  /\ submitted = FALSE
  /\ session = NoSession
  /\ \E fn \in {"formatMerchandiseId", "formatSellingPlanId"} :
       \E id \in Arguments(fn) :
         formatted = [fn |-> fn, input |-> id, outputs |-> <<>>]

NextFormat ==
  \/ ApplyFormat

SpecFormat == InitFormat /\ [][NextFormat]_vars

\* the resource type a formatter writes in a gid
GidTypeOf(fn) ==
  IF fn = "formatMerchandiseId" THEN "ProductVariant" ELSE "SellingPlan"

-----------------------------------------------------------------------------
(* The output of sanitizeHtml                                              *)

\* the sinks whose value went through sanitizeHtml
SanitizedSinks == {"WineClubCard.description", "detail.description"}

\* C31: for every input the output of sanitizeHtml holds no script element,
\* no iframe, object, embed, form or input tag, no inline on*= handler and no
\* javascript: URL; the script element in front of <p>Great wine</p> is
\* removed and the paragraph is kept.
C31_SanitizedOutputIsSafe ==
  \A r \in rendered :
    r.sink \in SanitizedSinks =>
      /\ r.html = sanitizeHtml(r.source)
      /\ \A i \in 1..Len(r.html) : r.html[i] = "text"
      /\ r.source = <<"script", "text">> => r.html = <<"text">>

-----------------------------------------------------------------------------
(* useNavigationGuard: leaving the wizard through navigateWithConfirmation *)

hasSelections(s) ==
  \/ s.selectedCaseSize # Null
  \/ s.selectedSellingPlan # Null
  \/ Len(s.selectedProducts) > 0

\* what the save handler given to the hook does when called: there is none,
\* its promise resolves, its promise rejects, or it throws before returning
SaveHandlers == {"none", "resolves", "rejects", "throws"}

Position(log, event) ==
  IF \E i \in 1..Len(log) : log[i] = event
  THEN CHOOSE i \in 1..Len(log) :
         log[i] = event /\ \A j \in 1..(i - 1) : log[j] # event
  ELSE 0

\* the rest of confirmNavigation and navigateWithConfirmation after a failed
\* save, if a failed save kept the user on the page
SaveSettled_FailureBlocks(nav, failed) ==
  [nav EXCEPT !.phase = "done",
              !.log = IF failed THEN @ \o <<"saveFailed">>
                      ELSE @ \o <<"navigate">>]

\* the rest of confirmNavigation and navigateWithConfirmation once the save
\* has settled: a failure is logged, confirmed is returned, navigate() runs
SaveSettled(nav, failed) ==
  [nav EXCEPT !.phase = "done",
              !.log = IF failed THEN @ \o <<"saveFailed", "navigate">>
                      ELSE @ \o <<"navigate">>]

\* navigateWithConfirmation(navigate) up to its first suspension on a save
\* that is under way; window.confirm blocks until the user has answered
navigateWithConfirmation(s, enabled, onSave, confirmed) ==
  LET nav == [phase |-> "done", enabled |-> enabled, onSave |-> onSave,
              confirmed |-> FALSE, log |-> <<>>]
  IN IF ~(enabled /\ hasSelections(s))
     THEN [nav EXCEPT !.log = <<"navigate">>]
     ELSE IF ~confirmed
          THEN [nav EXCEPT !.log = <<"confirm">>]
          ELSE IF onSave = "none"
               THEN [nav EXCEPT !.confirmed = TRUE,
                                !.log = <<"confirm", "navigate">>]
               ELSE IF onSave = "throws"
                    THEN SaveSettled([nav EXCEPT !.confirmed = TRUE,
                                                 !.log = <<"confirm", "save">>],
                                     TRUE)
                    ELSE [nav EXCEPT !.phase = "saving",
                                     !.confirmed = TRUE,
                                     !.log = <<"confirm", "save">>]

GuardUnchanged ==
  UNCHANGED <<wizardVars, response, listing, rendered, request, promo,
              formatted, session, submitted>>

\* a handler calls navigateWithConfirmation; the user answers the dialog
NavigateWithConfirmation(enabled, onSave, confirmed) ==
  /\ navigation.phase \in {"idle", "done"}
  /\ navigation' = navigateWithConfirmation(state, enabled, onSave, confirmed)
  /\ GuardUnchanged

\* the promise of the save handler resolves
SaveResolves ==
  /\ navigation.phase = "saving"
  /\ navigation.onSave = "resolves"
  /\ navigation' = SaveSettled(navigation, FALSE)
  /\ GuardUnchanged

\* the promise of the save handler rejects
SaveRejects ==
  /\ navigation.phase = "saving"
  /\ navigation.onSave = "rejects"
  /\ navigation' = SaveSettled(navigation, TRUE)
  /\ GuardUnchanged

\* the wizard state the hook is given: any combination of case size, selling
\* plan and main wines
InitGuard ==
  /\ PagesIdle
  /\ wineClub = "clubA"
  /\ allowStepNavigation = FALSE
  /\ mounted = TRUE
  /\ currentStep = initialState.currentStep
  /\ selectedCaseSize \in {Null} \cup CaseSizeIds
  /\ selectedSellingPlan \in {Null} \cup SellingPlanIds
  /\ \E quantity \in 0..1 :
       selectedProducts =
         updateProductQuantity(initialState, wineClub, "w1", quantity,
                               FALSE).selectedProducts
  /\ selectedAddOns = initialState.selectedAddOns
  /\ errors = initialState.errors
  /\ isReviewing = initialState.isReviewing
  /\ isSubmitting = initialState.isSubmitting
  /\ timers = <<>>
  /\ storage = NoRecord
  /\ now = 0

NextGuard ==
  \/ \E enabled \in BOOLEAN, onSave \in SaveHandlers, confirmed \in BOOLEAN :
       NavigateWithConfirmation(enabled, onSave, confirmed)
  \/ SaveResolves
  \/ SaveRejects

SpecGuard == InitGuard /\ [][NextGuard]_vars

\* C32: navigateWithConfirmation runs the navigation callback exactly when
\* the guard is disabled, or nothing is selected, or the user confirms the
\* dialog; after a confirmation with a save handler the save is attempted
\* before the navigation, and a failed save does not keep the navigation
\* from running.
C32_NavigationOnlyAfterConfirmation ==
  LET log == navigation.log
      mayLeave == \/ ~navigation.enabled
                  \/ ~hasSelections(state)
                  \/ navigation.confirmed
  IN /\ navigation.phase = "done" =>
          /\ Position(log, "navigate") > 0 <=> mayLeave
          /\ Position(log, "navigate") > 0 =>
               Position(log, "navigate") = Len(log)
          /\ (navigation.confirmed /\ navigation.onSave # "none") =>
               /\ Position(log, "save") > 0
               /\ Position(log, "save") < Position(log, "navigate")
     /\ navigation.phase = "saving" => Position(log, "navigate") = 0
     /\ Position(log, "confirm") > 0 <=>
          (navigation.phase # "idle" /\ navigation.enabled
             /\ hasSelections(state))

\* C32 witness: the user confirmed, the save failed, and the navigation ran
\* after it
C32_Witness ==
  /\ navigation.phase = "done"
  /\ hasSelections(state)
  /\ navigation.enabled
  /\ navigation.confirmed
  /\ navigation.onSave = "rejects"
  /\ navigation.log = <<"confirm", "save", "saveFailed", "navigate">>

-----------------------------------------------------------------------------
(* The formatted cart of a complete selection                              *)

\* C33: for every state with case size, selling plan and a main wine that
\* the quantity operations of the wizard lead to, validateCartData accepts
\* the cart of formatWineClubCart: there is a line, every line has a
\* merchandise id and a quantity of at least 1, and the club id is there.
C33_FormattedCartIsValid ==
  (mounted /\ ~IncompleteSelection(state)) =>
    /\ ~cart.threw
    /\ validateCartData(cart)
    /\ Len(cart.lines) > 0
    /\ \A i \in 1..Len(cart.lines) :
         /\ cart.lines[i].merchandiseId # NoIdentifier
         /\ cart.lines[i].merchandiseId # TypeError
         /\ cart.lines[i].quantity >= 1
    /\ cart.wineClubId = wineClub
    /\ cartLines(wineClub, state) = cart.lines

\* C33 witness: a valid cart with one main line, of a wine other than w1,
\* and one add-on line
C33_Witness ==
  /\ mounted
  /\ ~IncompleteSelection(state)
  /\ Len(selectedProducts) = 1
  /\ Len(selectedAddOns) = 1
  /\ selectedProducts[1].id # "w1"
  /\ validateCartData(cart)

-----------------------------------------------------------------------------
(* The totals of calculateTotalPrice                                       *)

\* the computed prices of the entries added up from the first entry on
RECURSIVE PricesFrom(_, _)
PricesFrom(entries, k) ==
  IF k > Len(entries) THEN 0
  ELSE entries[k].calculatedPrice + PricesFrom(entries, k + 1)

\* C34: in every wizard state calculateTotalPrice returns a grand total that
\* is the subscription total plus the add-on total, the subscription total
\* being the sum of the computed prices of selectedProducts and the add-on
\* total the sum of the computed prices of selectedAddOns.
C34_GrandTotalIsSum ==
  mounted =>
    LET pricing == calculateTotalPrice(state)
    IN /\ pricing.subscriptionTotal = PricesFrom(selectedProducts, 1)
       /\ pricing.addOnTotal = PricesFrom(selectedAddOns, 1)
       /\ pricing.grandTotal = pricing.subscriptionTotal + pricing.addOnTotal
       /\ pricing.grandTotal >= 0

\* C34 witness: main wines and add-ons both count in the grand total
C34_Witness ==
  /\ mounted
  /\ calculateTotalPrice(state).subscriptionTotal > 0
  /\ calculateTotalPrice(state).addOnTotal > 0
  /\ calculateTotalPrice(state).grandTotal
       = calculateTotalPrice(state).subscriptionTotal
           + calculateTotalPrice(state).addOnTotal

-----------------------------------------------------------------------------
(* The recovery functions on a session storage that may raise              *)

\* the operations of sessionStorage; any of them may raise (storage not
\* available, quota exceeded)
StorageOperations == {"setItem", "getItem", "removeItem"}

\* saveWizardState without its try/catch
sessionSave_Uncaught(store, raises, s, wineClubId, time) ==
  IF "setItem" \in raises
  THEN [raised |-> TRUE, storage |-> store]
  ELSE [raised |-> FALSE, storage |-> saveWizardState(s, wineClubId, time)]

\* saveWizardState on the storage: whether it raises, and the record left
sessionSave(store, raises, s, wineClubId, time) ==
  IF "setItem" \in raises
  THEN [raised |-> FALSE, storage |-> store]
  ELSE [raised |-> FALSE, storage |-> saveWizardState(s, wineClubId, time)]

\* loadWizardState on the storage: whether it raises, whether it returns a
\* state, and the record left
sessionLoad(store, raises, wineClubId, time) ==
  IF "getItem" \in raises
  THEN [raised |-> FALSE, found |-> FALSE, storage |-> store]
  ELSE LET loaded == loadWizardState(store, wineClubId, time)
       IN IF loaded.storage # store /\ "removeItem" \in raises
          THEN [raised |-> FALSE, found |-> FALSE, storage |-> store]
          ELSE [raised |-> FALSE, found |-> loaded.found,
                storage |-> loaded.storage]

\* clearWizardState on the storage
clearWizardState(store, raises) ==
  IF "removeItem" \in raises
  THEN [raised |-> FALSE, storage |-> store]
  ELSE [raised |-> FALSE, storage |-> NoRecord]

SessionUnchanged ==
  UNCHANGED <<wineClub, allowStepNavigation, mounted, formVars, timers, now,
              response, listing, rendered, request, promo, formatted,
              navigation, submitted>>

\* saveWizardState(state, wineClubId) is called
SessionSave(wineClubId) ==
  /\ LET saved == sessionSave(storage, session.raises, state, wineClubId, now)
     IN /\ storage' = saved.storage
        /\ session' = [session EXCEPT !.fn = "saveWizardState",
                                      !.club = wineClubId,
                                      !.raised = saved.raised,
                                      !.returned = "none",
                                      !.before = storage,
                                      !.held = state]
  /\ SessionUnchanged

\* loadWizardState(wineClubId) is called
SessionLoad(wineClubId) ==
  /\ LET loaded == sessionLoad(storage, session.raises, wineClubId, now)
     IN /\ storage' = loaded.storage
        /\ session' = [session EXCEPT !.fn = "loadWizardState",
                                      !.club = wineClubId,
                                      !.raised = loaded.raised,
                                      !.returned = IF loaded.found
                                                   THEN "state" ELSE "null",
                                      !.before = storage,
                                      !.held = state]
  /\ SessionUnchanged

\* clearWizardState() is called
SessionClear ==
  /\ LET cleared == clearWizardState(storage, session.raises)
     IN /\ storage' = cleared.storage
        /\ session' = [session EXCEPT !.fn = "clearWizardState",
                                      !.club = "",
                                      !.raised = cleared.raised,
                                      !.returned = "none",
                                      !.before = storage,
                                      !.held = state]
  /\ SessionUnchanged

\* time passes
SessionTick ==
  /\ now < MaxTicks * TickMs
  /\ now' = now + TickMs
  /\ UNCHANGED <<wineClub, allowStepNavigation, mounted, formVars, timers,
                 storage, pageVars>>

InitSession ==
  /\ wineClub = "clubA"
  /\ allowStepNavigation = FALSE
  /\ mounted = TRUE
  /\ currentStep = initialState.currentStep
  /\ selectedCaseSize \in {Null} \cup CaseSizeIds
  /\ selectedSellingPlan = initialState.selectedSellingPlan
  /\ selectedProducts = initialState.selectedProducts
  /\ selectedAddOns = initialState.selectedAddOns
  /\ errors = initialState.errors
  /\ isReviewing = initialState.isReviewing
  /\ isSubmitting = initialState.isSubmitting
  /\ timers = <<>>
  /\ storage = NoRecord
  /\ now = 0
  /\ response = [status |-> "ok", data |-> <<>>]
  /\ listing = [fetched |-> FALSE, clubs |-> <<>>]
  /\ rendered = {}
  /\ request = NoRequest
  /\ promo = NoPromo
  /\ formatted = NoFormatted
  /\ navigation = NoNavigation
  /\ submitted = FALSE
  /\ \E raises \in SUBSET StorageOperations :
       session = [NoSession EXCEPT !.raises = raises]

NextSession ==
  \/ \E wineClubId \in {"clubA", "clubB"} : SessionSave(wineClubId)
  \/ \E wineClubId \in {"clubA", "clubB"} : SessionLoad(wineClubId)
  \/ SessionClear
  \/ SessionTick

SpecSession == InitSession /\ [][NextSession]_vars

\* C35: when session storage raises on write, read or remove, saveWizardState
\* and clearWizardState complete without raising, loadWizardState returns
\* null, and the wizard state held in memory is as it was.
C35_StorageFailuresAreCaught ==
  session.fn # "none" =>
    /\ ~session.raised
    /\ session.held = state
    /\ (session.fn = "saveWizardState" /\ "setItem" \in session.raises) =>
         storage = session.before
    /\ (session.fn = "clearWizardState" /\ "removeItem" \in session.raises) =>
         storage = session.before
    /\ (session.fn = "loadWizardState" /\ "getItem" \in session.raises) =>
         /\ session.returned = "null"
         /\ storage = session.before
    /\ (session.fn = "loadWizardState" /\ "removeItem" \in session.raises
          /\ session.before # NoRecord
          /\ session.before.wineClubId # session.club) =>
         session.returned = "null"

\* C35 witness: a save of a state with a case size on a storage whose
\* setItem raises
C35_Witness ==
  /\ session.fn = "saveWizardState"
  /\ "setItem" \in session.raises
  /\ ~session.raised
  /\ session.held = state
  /\ selectedCaseSize # Null

-----------------------------------------------------------------------------
(* The auto-advance callbacks and the step they were scheduled on          *)

\* C36: an auto-advance callback scheduled by a case-size or frequency click
\* advances the wizard only from the step on which the click happened; when
\* the wizard has left that step, the callback leaves currentStep as it is.
C36_AutoAdvanceOnlyFromItsStep ==
  [][TimerFire =>
       /\ currentStep' \in {currentStep, currentStep + 1}
       /\ Head(timers).currentStep # currentStep =>
            currentStep' = currentStep]_vars

-----------------------------------------------------------------------------
(* The cart lines of the Review step and the minimum order value           *)

\* C37: whenever the Review step hands a non-empty list of cart lines to the
\* Add to Cart form, the subscription subtotal of the state is at least the
\* valid minimum order value of the selected case size.
C37_NoCartBelowMinimum ==
  (/\ mounted
   /\ currentStep = 4
   /\ cartLines(wineClub, state) # <<>>
   /\ HasValidMov(wineClub, selectedCaseSize)) =>
    ~Lt(calculateTotalPrice(state).subscriptionTotal,
        MovOf(wineClub, selectedCaseSize))

-----------------------------------------------------------------------------
(* Clicks on the progress bar                                              *)

\* C38: with allowStepNavigation, a progress-bar click on an earlier step
\* always moves the wizard to that step, a click on the next step moves
\* there only if the current step validates, and a click on a step further
\* ahead leaves currentStep as it is; without allowStepNavigation no
\* progress-bar click changes the wizard state.
C38_ProgressBarNavigation ==
  [][\A step \in 1..4 :
       ProgressBarClick(step) =>
         /\ ~allowStepNavigation => state' = state
         /\ (allowStepNavigation /\ step < currentStep) =>
              currentStep' = step
         /\ (allowStepNavigation /\ step = currentStep + 1) =>
              /\ currentStep' \in {currentStep, step}
              /\ currentStep' = step
                   <=> validateCurrentStep(state, wineClub).valid
         /\ (allowStepNavigation /\ step > currentStep + 1) =>
              currentStep' = currentStep]_vars

-----------------------------------------------------------------------------
(* Completing the wizard: the Add to Cart form of the Review step          *)

\* the clear effect of the container, run after the auto-save effect of the
\* same render: the snapshot is removed when the state is at step 5
ClearWhenCompleted(s, store) ==
  IF s.currentStep = 5 THEN clearWizardState(store, {}).storage ELSE store

\* the user submits the Add to Cart form of the Review step: CartForm sends
\* the lines to the cart route; no state update of the wizard is made
AddToCart ==
  /\ mounted
  /\ currentStep = 4
  /\ cartLines(wineClub, state) # <<>>
  /\ ~submitted
  /\ submitted' = TRUE
  /\ storage' = ClearWhenCompleted(state, storage)
  /\ UNCHANGED <<wineClub, allowStepNavigation, mounted, formVars, timers, now,
                 response, listing, rendered, request, promo, formatted,
                 navigation, session>>

NextSubmit ==
  \/ NextUI
  \/ AddToCart

SpecSubmit == Init /\ [][NextSubmit]_vars

\* C39: once the selection has been submitted from the Review step, the
\* saved snapshot is removed and the auto-save does not write it again: a
\* later loadWizardState for the club returns null.
C39_CompletionClearsSnapshot ==
  (mounted /\ submitted) => ~loadWizardState(storage, wineClub, now).found

-----------------------------------------------------------------------------
(* One snapshot in session storage                                         *)

\* C40: session storage holds at most one snapshot: saveWizardState for a
\* club replaces the stored snapshot of another club, and loadWizardState
\* for a club on the stored snapshot of another club returns null and
\* deletes that snapshot, so that a load for the other club returns null
\* as well.
C40_OneSnapshotAtATime ==
  session.raises = {} =>
    /\ session.fn = "saveWizardState" =>
         /\ storage.wineClubId = session.club
         /\ storage.state = JsonState(state)
         /\ storage.timestamp <= now
    /\ (session.fn = "loadWizardState" /\ session.before # NoRecord
          /\ session.before.wineClubId # session.club) =>
         /\ session.returned = "null"
         /\ storage = NoRecord
         /\ \A wineClubId \in ClubIds :
              ~sessionLoad(storage, session.raises, wineClubId, now).found
    /\ (session.fn = "loadWizardState" /\ session.returned = "state") =>
         /\ storage = session.before
         /\ storage.wineClubId = session.club

\* C40 witness: a load for clubB met the snapshot of clubA and removed it
C40_Witness ==
  /\ session.raises = {}
  /\ session.fn = "loadWizardState"
  /\ session.club = "clubB"
  /\ session.before # NoRecord
  /\ session.before.wineClubId = "clubA"
  /\ session.returned = "null"
  /\ storage = NoRecord

====
